---------------------------- MODULE Spec2Model ----------------------------
(***************************************************************************)
(* A state-machine model of the taxrunner game server                      *)
(* (src/server/index.js): the daily leaderboard, the rollover scheduler,   *)
(* the anti-cheat run validation, the winner claim protocol and the        *)
(* server-sent-event hub.                                                  *)
(*                                                                         *)
(* Node runs every handler and timer callback to completion on one thread, *)
(* so each handler is one atomic action.                                   *)
(*                                                                         *)
(* Representation:                                                         *)
(*   - time is Date.now() in milliseconds;                                 *)
(*   - a day key 'YYYY-MM-DD' is the number of the Europe/Zagreb calendar  *)
(*     day (the string order of the keys is the order of the numbers);     *)
(*   - a JS Map is a sequence of entries in insertion order;               *)
(*   - a string is a sequence of one-character strings;                    *)
(*   - a raw score is a number counted in units of 1/ScoreUnit, so that    *)
(*     Math.floor is not the identity; stored scores are whole numbers;    *)
(*   - a uuid is the next unused number of its kind;                       *)
(*   - a claim secret is a number, sha256 an injective function on them;   *)
(*   - what a handler answers and what it writes to the event streams are  *)
(*     functions of the request and of the state the handler starts in:    *)
(*     for a handler H, HResponse is its status and JSON body, HEvents the *)
(*     events it writes, each with the connection written to, and H the    *)
(*     change of state;                                                    *)
(*   - for the handlers the properties speak about, the value a handler    *)
(*     leaves in a variable is an operator too (SubmitRuns, SubmitBoards,  *)
(*     UseItemBoards, ...), and the action assigns it;                     *)
(*   - arithmetic is exact: the scores, times and interval samples         *)
(*     explored are such that the rounding of JavaScript doubles decides   *)
(*     no comparison of the anti-cheat rules;                              *)
(*   - saveState() writes players.json, which is outside the modelled      *)
(*     state, and the server starts without a players.json.                *)
(***************************************************************************)
EXTENDS Integers, Sequences, FiniteSets, TLC

(***************************************************************************)
(* Bounds of the model.                                                    *)
(***************************************************************************)
MaxPlayers == 2
MaxRuns == 2
MaxDays == 1
MaxConns == 1
MaxSecrets == 2
MaxSpend == 25
MaxGrants == 3

(***************************************************************************)
(* Program constants.                                                      *)
(***************************************************************************)
RESET_COOLDOWN_MS == 300000
ADMIN_TRIGGER == <<"x", "f", "i", "l", "e", "s", "7", "5">>
DEFAULT_DROP == 100
ITEM_PRICES ==
    [FLASHBANG |-> 10, RESET_LEADERBOARD |-> 50,
     SAVE_FROM_RESET |-> 25, SAVE_FROM_FLASHBANGS |-> 15]

ScoreUnit == 2
DayMs == 86400000
SecondMs == 1000
HourMs == 3600000
\* Date.now() when the process starts: 00:00 Europe/Zagreb (UTC+1) of day 10.
StartTime == 860400000

(***************************************************************************)
(* Small helpers.                                                          *)
(***************************************************************************)
Max(a, b) == IF a >= b THEN a ELSE b
Min(a, b) == IF a <= b THEN a ELSE b
CeilDiv(a, b) == (a + b - 1) \div b
Range(s) == {s[i] : i \in DOMAIN s}
NoFn == << >>

\* A faulty variant of Floor that rounds up.
FloorUp(score) == CeilDiv(score, ScoreUnit)

\* Math.floor of a raw score (counted in 1/ScoreUnit).
Floor(score) == score \div ScoreUnit

\* dayKey(d): the calendar day of d in Europe/Zagreb.
dayKey(t) == (t + HourMs) \div DayMs

\* sha256 of a claim secret, hex encoded.
Sha256(secret) == (secret * secret) + 17

(***************************************************************************)
(* Strings.                                                                *)
(***************************************************************************)
StartsWith(s, p) == Len(s) >= Len(p) /\ SubSeq(s, 1, Len(p)) = p
Includes(s, p) == \E i \in 1..(Len(s) - Len(p) + 1) : SubSeq(s, i, i + Len(p) - 1) = p

RECURSIVE ReplaceAll(_, _)
ReplaceAll(s, p) ==
    IF s = <<>> THEN <<>>
    ELSE IF StartsWith(s, p) THEN ReplaceAll(SubSeq(s, Len(p) + 1, Len(s)), p)
    ELSE <<Head(s)>> \o ReplaceAll(Tail(s), p)

RECURSIVE TrimStart(_)
TrimStart(s) == IF s # <<>> /\ Head(s) = " " THEN TrimStart(Tail(s)) ELSE s
RECURSIVE TrimEnd(_)
TrimEnd(s) ==
    IF s # <<>> /\ s[Len(s)] = " " THEN TrimEnd(SubSeq(s, 1, Len(s) - 1)) ELSE s
Trim(s) == TrimEnd(TrimStart(s))
Slice(s, n) == SubSeq(s, 1, Min(n, Len(s)))

(***************************************************************************)
(* JS Map as a sequence of entries keyed by playerId.                      *)
(***************************************************************************)
MapHas(m, k) == \E i \in DOMAIN m : m[i].playerId = k
MapGet(m, k) == m[CHOOSE i \in DOMAIN m : m[i].playerId = k]
MapSet(m, k, v) ==
    IF MapHas(m, k)
    THEN [i \in DOMAIN m |-> IF m[i].playerId = k THEN v ELSE m[i]]
    ELSE Append(m, v)
MapKeys(m) == {m[i].playerId : i \in DOMAIN m}

\* f with key k set to v (object property assignment).
Put(f, k, v) == [x \in (DOMAIN f) \cup {k} |-> IF x = k THEN v ELSE f[x]]
\* f without key k (Map.delete).
Drop(f, k) == [x \in (DOMAIN f) \ {k} |-> f[x]]


(***************************************************************************)
(* State.                                                                  *)
(*   now             Date.now()                                            *)
(*   currentDay      the current epoch key                                 *)
(*   players         playerId -> player record                             *)
(*   leaderboards    day key -> Map of entries                             *)
(*   runs            runId -> [playerId, startedAt]                        *)
(*   runSeq          how many run ids uuidv4 has issued                    *)
(*   lastManualReset time of the last manual reset                         *)
(*   MONEY_DROP_AMOUNT the global prize, in cents                          *)
(*   winners         day key -> winner record                              *)
(*   sseClients      playerId -> registered connection                     *)
(*   conns           connection -> [playerId, open]                        *)
(*   pendingGrants   playerId -> (item -> count) not yet polled            *)
(*   epochBest       history, not program state: playerId -> the greatest  *)
(*                   floored score accepted from the player in the current *)
(*                   epoch (max) and the last best returned to them (best) *)
(*   touched         history, not program state: the players whose entry   *)
(*                   of the current epoch was carried over by              *)
(*                   save-from-reset or removed by a manual reset          *)
(*   queued, polled  history, not program state: per player and item, the  *)
(*                   units queueGrant has queued and the units the polls   *)
(*                   of GET /claim-grants have returned                    *)
(***************************************************************************)
VARIABLES now, currentDay, players, leaderboards, runs, runSeq,
          lastManualReset, MONEY_DROP_AMOUNT, winners, sseClients, conns,
          pendingGrants, epochBest, touched, queued, polled

vars == <<now, currentDay, players, leaderboards, runs, runSeq,
          lastManualReset, MONEY_DROP_AMOUNT, winners, sseClients, conns,
          pendingGrants, epochBest, touched, queued, polled>>

\* The stores a handler may leave alone.
board == <<currentDay, leaderboards, epochBest, touched>>
hub == <<sseClients, conns>>
grants == <<pendingGrants, queued, polled>>

Init ==
    /\ now = StartTime
    /\ currentDay = dayKey(StartTime)
    /\ players = NoFn
    /\ leaderboards = (dayKey(StartTime) :> <<>>)
    /\ runs = NoFn
    /\ runSeq = 0
    /\ lastManualReset = 0
    /\ MONEY_DROP_AMOUNT = DEFAULT_DROP * 100
    /\ winners = NoFn
    /\ sseClients = NoFn
    /\ conns = NoFn
    /\ pendingGrants = NoFn
    /\ epochBest = NoFn
    /\ touched = {}
    /\ queued = NoFn
    /\ polled = NoFn

Ok(body) == [status |-> 200, body |-> body]
Error(status, error) == [status |-> status, body |-> [error |-> error]]

(***************************************************************************)
(* The event hub.                                                          *)
(***************************************************************************)
\* A faulty variant of sseSendTo that writes to every registered sink.
sseSendToAll(playerId, event, data) ==
    {[to |-> sseClients[k], event |-> event, data |-> data] : k \in DOMAIN sseClients}

sseSendTo(playerId, event, data) ==
    IF playerId \in DOMAIN sseClients
    THEN {[to |-> sseClients[playerId], event |-> event, data |-> data]}
    ELSE {}

broadcast(type, payload) ==
    {[to |-> sseClients[k], event |-> type, data |-> payload] : k \in DOMAIN sseClients}

\* GET /events: registers the response under playerId and greets it.
ConnectEvents(playerId) ==
    {[to |-> Cardinality(DOMAIN conns) + 1, event |-> "hello",
      data |-> [ok |-> TRUE, day |-> currentDay, playerId |-> playerId]]}

Connect(playerId) ==
    /\ LET c == Cardinality(DOMAIN conns) + 1 IN
         /\ conns' = Put(conns, c, [playerId |-> playerId, open |-> TRUE])
         /\ sseClients' = Put(sseClients, playerId, c)
    /\ UNCHANGED grants
    /\ UNCHANGED <<now, board, players, runs, runSeq, lastManualReset,
                   MONEY_DROP_AMOUNT, winners>>

\* A faulty variant of Close that leaves the registry as it is.
CloseRegistered(c) ==
    /\ c \in DOMAIN conns
    /\ conns[c].open
    /\ conns' = [conns EXCEPT ![c].open = FALSE]
    /\ UNCHANGED sseClients
    /\ UNCHANGED <<pendingGrants, queued, polled>>
    /\ UNCHANGED <<now, currentDay, leaderboards, epochBest, touched, players, runs,
                   runSeq, lastManualReset, MONEY_DROP_AMOUNT, winners>>

\* req.on('close'): deletes whatever is registered under the connection's id.
Close(c) ==
    /\ c \in DOMAIN conns
    /\ conns[c].open
    /\ conns' = [conns EXCEPT ![c].open = FALSE]
    /\ sseClients' = Drop(sseClients, conns[c].playerId)
    /\ UNCHANGED grants
    /\ UNCHANGED <<now, board, players, runs, runSeq, lastManualReset,
                   MONEY_DROP_AMOUNT, winners>>

(***************************************************************************)
(* Pending grants.  A grant mapping is a function item -> count; {} is the *)
(* empty function.                                                         *)
(***************************************************************************)
\* cur[item] || 0
CountOf(cur, item) == IF item \in DOMAIN cur THEN cur[item] ELSE 0

\* pendingGrants.get(playerId) || {}
GrantsOf(store, playerId) == IF playerId \in DOMAIN store THEN store[playerId] ELSE NoFn

\* A faulty variant of Queued that overwrites the count already queued.
QueuedAnew(playerId, item, count) ==
    Put(pendingGrants, playerId, Put(GrantsOf(pendingGrants, playerId), item, count))

\* The pending grants after queueGrant(playerId, item, count).
Queued(playerId, item, count) ==
    LET cur == GrantsOf(pendingGrants, playerId) IN
    Put(pendingGrants, playerId, Put(cur, item, CountOf(cur, item) + count))

\* queueGrant also pushes purchaseCompleted to the player's sink.
QueueGrantEvents(playerId, item, count) ==
    sseSendTo(playerId, "purchaseCompleted", [item |-> item, count |-> count])

\* The history of one more queued or polled batch.
Tally(history, playerId, batch) ==
    LET cur == GrantsOf(history, playerId) IN
    Put(history, playerId,
        [i \in (DOMAIN cur) \cup (DOMAIN batch) |-> CountOf(cur, i) + CountOf(batch, i)])

queueGrant(playerId, item, count) ==
    /\ pendingGrants' = Queued(playerId, item, count)
    /\ queued' = Tally(queued, playerId, (item :> count))
    /\ UNCHANGED <<now, board, players, runs, runSeq, lastManualReset,
                   MONEY_DROP_AMOUNT, winners, hub, polled>>

\* GET /claim-grants?playerId: answers the player's grants and forgets them.
ClaimGrantsResponse(playerId) == Ok(GrantsOf(pendingGrants, playerId))

\* A faulty variant of Drained that keeps the entry.
Undrained(playerId) == pendingGrants

\* The pending grants after GET /claim-grants.
Drained(playerId) == Drop(pendingGrants, playerId)

ClaimGrants(playerId) ==
    /\ pendingGrants' = Drained(playerId)
    /\ polled' = IF playerId \in DOMAIN pendingGrants
                 THEN Tally(polled, playerId, pendingGrants[playerId])
                 ELSE polled
    /\ UNCHANGED <<now, board, players, runs, runSeq, lastManualReset,
                   MONEY_DROP_AMOUNT, winners, hub, queued>>

(***************************************************************************)
(* The clock.                                                              *)
(***************************************************************************)
AdvanceClock(times) ==
    /\ \E t \in times : t > now /\ now' = t
    /\ UNCHANGED grants
    /\ UNCHANGED <<board, players, runs, runSeq, lastManualReset,
                   MONEY_DROP_AMOUNT, winners, hub>>

(***************************************************************************)
(* The scheduler tick: sweep of old runs, then the daily rollover.         *)
(***************************************************************************)
\* A faulty variant of IsOldRun that sweeps a run at exactly one hour.
IsOldRunInclusive(run, t) == run.startedAt <= t - HourMs

IsOldRun(run, t) == run.startedAt < t - HourMs

cleanupOldRuns(rs, t) ==
    [r \in {x \in DOMAIN rs : ~IsOldRun(rs[x], t)} |-> rs[r]]

\* A faulty variant of NeedsRollover that rolls over on every tick.
AlwaysRollover(nowKey, day) == TRUE

\* A faulty variant of IsSaved that does not look at the closing score.
IsSavedAnyScore(p, prevLB) == players[p].saveFromReset > 0 /\ MapHas(prevLB, p)

\* A faulty variant of NeedsRollover that waits until two days have passed.
NeedsRolloverLate(nowKey, day) == nowKey > day + 1

NeedsRollover(nowKey, day) == nowKey # day

\* A faulty variant of Top1 that takes the last of the entries of maximal
\* score.
Top1Last(lb) ==
    lb[CHOOSE i \in DOMAIN lb :
         /\ \A j \in DOMAIN lb : lb[j].score <= lb[i].score
         /\ \A j \in DOMAIN lb : lb[j].score = lb[i].score => j <= i]

\* prevLB.sort((a,b)=>b.score-a.score)[0]: the sort is stable, so the first
\* entry in insertion order among those of maximal score.
Top1(lb) ==
    lb[CHOOSE i \in DOMAIN lb :
         /\ \A j \in DOMAIN lb : lb[j].score <= lb[i].score
         /\ \A j \in DOMAIN lb : lb[j].score = lb[i].score => i <= j]

\* 'win-' + crypto.randomBytes(8): a code no other record has.
NewClaimCode(prevDay) == prevDay

NewWinner(prevDay, top1, claimSecret) ==
    [day |-> prevDay, playerId |-> top1.playerId, name |-> top1.name,
     score |-> top1.score, prize |-> MONEY_DROP_AMOUNT, paid |-> FALSE,
     verified |-> FALSE, claimHash |-> Sha256(claimSecret),
     claimCode |-> NewClaimCode(prevDay)]

\* Whether player p's entry of the closed board is carried over.
IsSaved(p, prevLB) ==
    /\ players[p].saveFromReset > 0
    /\ MapHas(prevLB, p)
    /\ MapGet(prevLB, p).score > 0

\* A faulty variant of CarryOver that opens the new leaderboard empty.
CarryNothing(pids, prevLB, newLB) == newLB

\* The save-from-reset loop over Object.entries(players), in key order.
RECURSIVE CarryOver(_, _, _)
CarryOver(pids, prevLB, newLB) ==
    IF pids = {} THEN newLB
    ELSE LET p == CHOOSE x \in pids : \A y \in pids : x <= y
             nxt == IF IsSaved(p, prevLB)
                    THEN MapSet(newLB, p, [playerId |-> p, name |-> players[p].name,
                                           score |-> MapGet(prevLB, p).score])
                    ELSE newLB
         IN CarryOver(pids \ {p}, prevLB, nxt)

\* A faulty variant of SavesLeft that leaves the counter as it is.
SavesKept(p, prevLB) == players[p].saveFromReset

SavesLeft(p, prevLB) ==
    IF IsSaved(p, prevLB) THEN players[p].saveFromReset - 1
    ELSE players[p].saveFromReset

\* What the tick at this instant writes, were claimSecret the secret drawn.
TickEvents(claimSecret) ==
    IF ~NeedsRollover(dayKey(now), currentDay) THEN {}
    ELSE (IF leaderboards[currentDay] # <<>>
          THEN sseSendTo(Top1(leaderboards[currentDay]).playerId, "youWon",
                 [day |-> currentDay, claimCode |-> NewClaimCode(currentDay),
                  claimSecret |-> claimSecret, prize |-> MONEY_DROP_AMOUNT])
          ELSE {})
         \cup broadcast("forceReset", [newDay |-> dayKey(now)])

Rollover(nowKey, claimSecret) ==
    LET prevDay == currentDay
        prevLB == leaderboards[prevDay]
        opened == IF nowKey \in DOMAIN leaderboards THEN leaderboards[nowKey] ELSE <<>>
    IN
    /\ currentDay' = nowKey
    /\ winners' = IF prevLB # <<>>
                  THEN Put(winners, prevDay, NewWinner(prevDay, Top1(prevLB), claimSecret))
                  ELSE winners
    /\ leaderboards' = Put(leaderboards, nowKey, CarryOver(DOMAIN players, prevLB, opened))
    /\ players' = [p \in DOMAIN players |->
                     [players[p] EXCEPT !.saveFromReset = SavesLeft(p, prevLB)]]
    /\ epochBest' = NoFn
    /\ touched' = {p \in DOMAIN players : IsSaved(p, prevLB)}

Tick(secrets) ==
    /\ runs' = cleanupOldRuns(runs, now)
    /\ IF NeedsRollover(dayKey(now), currentDay)
       THEN \E claimSecret \in secrets : Rollover(dayKey(now), claimSecret)
       ELSE UNCHANGED <<board, players, winners>>
    /\ UNCHANGED grants
    /\ UNCHANGED <<now, runSeq, lastManualReset, MONEY_DROP_AMOUNT, hub>>

(***************************************************************************)
(* POST /register                                                          *)
(***************************************************************************)
CleanName(raw) == Slice(Trim(ReplaceAll(raw, ADMIN_TRIGGER)), 16)
IsAdminName(raw) == Includes(raw, ADMIN_TRIGGER) \/ raw = ADMIN_TRIGGER
StartCredits(isAdmin) == IF isAdmin THEN 9999 ELSE 100
\* uuidv4(): an id no player has.
NewPlayerId == Cardinality(DOMAIN players) + 1

RegisterResponse(name) ==
    LET raw == Trim(name) IN
    IF raw = <<>> \/ Len(raw) > 32 THEN Error(400, "Invalid name")
    ELSE Ok([playerId |-> NewPlayerId, name |-> CleanName(raw),
             credits |-> StartCredits(IsAdminName(raw)), day |-> currentDay,
             claimCode |-> NewPlayerId])

Register(name) ==
    /\ IF RegisterResponse(name).status # 200 THEN UNCHANGED players
       ELSE players' = Put(players, NewPlayerId,
              [name |-> CleanName(Trim(name)),
               credits |-> StartCredits(IsAdminName(Trim(name))),
               flashShieldActive |-> FALSE, saveFromReset |-> 0,
               isAdmin |-> IsAdminName(Trim(name)), claimCode |-> NewPlayerId])
    /\ UNCHANGED grants
    /\ UNCHANGED <<now, board, runs, runSeq, lastManualReset, MONEY_DROP_AMOUNT,
                   winners, hub>>

(***************************************************************************)
(* POST /start-run                                                         *)
(***************************************************************************)
StartRunResponse(playerId) ==
    IF playerId \notin DOMAIN players THEN Error(400, "Invalid player")
    ELSE Ok([ok |-> TRUE, runId |-> runSeq + 1])

StartRun(playerId) ==
    /\ IF StartRunResponse(playerId).status # 200 THEN UNCHANGED <<runs, runSeq>>
       ELSE /\ runSeq' = runSeq + 1
            /\ runs' = Put(runs, runSeq + 1, [playerId |-> playerId, startedAt |-> now])
    /\ UNCHANGED grants
    /\ UNCHANGED <<now, board, players, lastManualReset, MONEY_DROP_AMOUNT,
                   winners, hub>>

(***************************************************************************)
(* POST /submit-score                                                      *)
(***************************************************************************)
\* typeof score === 'number' && isFinite(score) && score >= 0
ValidScore(score) == score.finite /\ score.val >= 0

\* A faulty variant of NoActiveRun that does not compare the owner.
NoActiveRunAnyOwner(runId, playerId) == runId \notin DOMAIN runs

\* !run || run.playerId !== playerId
NoActiveRun(runId, playerId) ==
    runId \notin DOMAIN runs \/ runs[runId].playerId # playerId

\* minSec = Math.max(score / 6, 8), in milliseconds rounded up: for a whole
\* number of milliseconds a, a < x iff a < ceil(x).
MinMs(score) == Max(CeilDiv(score * SecondMs, 6 * ScoreUnit), 8 * SecondMs)

\* A faulty variant of IsTooFast without the two seconds of grace.
IsTooFastNoGrace(score, elapsedMs) == elapsedMs < MinMs(score)

\* elapsedSec + 2 < minSec
IsTooFast(score, elapsedMs) == elapsedMs + 2 * SecondMs < MinMs(score)

RECURSIVE Sum(_)
Sum(s) == IF s = <<>> THEN 0 ELSE Head(s) + Sum(Tail(s))
Squares(s) == [i \in DOMAIN s |-> s[i] * s[i]]

\* A faulty variant of IsUnnatural that also rejects a deviation of exactly 50.
IsUnnaturalInclusive(jumpIntervals) ==
    LET n == Len(jumpIntervals) IN
    /\ n >= 10
    /\ n * Sum(Squares(jumpIntervals)) - Sum(jumpIntervals) * Sum(jumpIntervals)
         <= 50 * 50 * n * n

\* jumpIntervals.length >= 10 and stddev < 50, where stddev^2 is the mean of
\* the squares minus the square of the mean (exact arithmetic).
IsUnnatural(jumpIntervals) ==
    LET n == Len(jumpIntervals) IN
    /\ n >= 10
    /\ n * Sum(Squares(jumpIntervals)) - Sum(jumpIntervals) * Sum(jumpIntervals)
         < 50 * 50 * n * n

\* playerName && typeof playerName === 'string' && 0 < length <= 16
NameGiven(playerName) == Len(playerName) > 0 /\ Len(playerName) <= 16

\* A faulty variant of BestOf that forgets the existing entry.
BestOfLatest(lb, playerId, score) == Floor(score)

\* existing ? Math.max(existing.score, Math.floor(score)) : Math.floor(score)
BestOf(lb, playerId, score) ==
    IF MapHas(lb, playerId)
    THEN Max(MapGet(lb, playerId).score, Floor(score))
    ELSE Floor(score)

\* The name the entry gets: the submitted one when it is stored.
SubmitName(playerId, playerName) ==
    IF NameGiven(playerName) THEN playerName ELSE players[playerId].name

SubmitResponse(playerId, playerName, score, runId, jumpIntervals) ==
    IF playerId \notin DOMAIN players THEN Error(400, "Invalid player")
    ELSE IF ~ValidScore(score) THEN Error(400, "Invalid score")
    ELSE IF ~players[playerId].isAdmin /\ NoActiveRun(runId, playerId)
    THEN Error(400, "No active run")
    ELSE IF ~players[playerId].isAdmin
            /\ IsTooFast(score.val, now - runs[runId].startedAt)
    THEN [status |-> 400,
          body |-> [error |-> "Too fast",
                    need |-> CeilDiv(MinMs(score.val), SecondMs),
                    elapsed |-> (now - runs[runId].startedAt) \div SecondMs]]
    ELSE IF ~players[playerId].isAdmin /\ IsUnnatural(jumpIntervals)
    THEN Error(400, "Unnatural rhythm")
    ELSE Ok([ok |-> TRUE,
             best |-> BestOf(leaderboards[currentDay], playerId, score.val)])

SubmitEvents(playerId, playerName, score, runId, jumpIntervals) ==
    IF SubmitResponse(playerId, playerName, score, runId, jumpIntervals).status # 200
    THEN {}
    ELSE broadcast("leaderboardUpdated",
           [playerId |-> playerId, name |-> SubmitName(playerId, playerName),
            score |-> BestOf(leaderboards[currentDay], playerId, score.val)])

\* A faulty variant of SubmitRuns that consumes the run before the anti-cheat
\* rules are applied.
SubmitRunsEager(playerId, playerName, score, runId, jumpIntervals) ==
    IF playerId \notin DOMAIN players \/ ~ValidScore(score) THEN runs
    ELSE IF players[playerId].isAdmin THEN runs ELSE Drop(runs, runId)

\* The runs after POST /submit-score: runs.delete(runId) past the anti-cheat.
SubmitRuns(playerId, playerName, score, runId, jumpIntervals) ==
    IF SubmitResponse(playerId, playerName, score, runId, jumpIntervals).status # 200
    THEN runs
    ELSE IF players[playerId].isAdmin THEN runs ELSE Drop(runs, runId)

\* The leaderboards after POST /submit-score.
SubmitBoards(playerId, playerName, score, runId, jumpIntervals) ==
    IF SubmitResponse(playerId, playerName, score, runId, jumpIntervals).status # 200
    THEN leaderboards
    ELSE [leaderboards EXCEPT ![currentDay] =
            MapSet(@, playerId,
                   [playerId |-> playerId,
                    name |-> SubmitName(playerId, playerName),
                    score |-> BestOf(leaderboards[currentDay], playerId, score.val)])]

SubmitScore(playerId, playerName, score, runId, jumpIntervals) ==
    /\ runs' = SubmitRuns(playerId, playerName, score, runId, jumpIntervals)
    /\ leaderboards' = SubmitBoards(playerId, playerName, score, runId, jumpIntervals)
    /\ IF SubmitResponse(playerId, playerName, score, runId, jumpIntervals).status # 200
       THEN UNCHANGED <<currentDay, epochBest, touched, players>>
       ELSE LET name == SubmitName(playerId, playerName)
                best == BestOf(leaderboards[currentDay], playerId, score.val)
            IN /\ players' = [players EXCEPT ![playerId].name = name]
               /\ epochBest' = Put(epochBest, playerId,
                      [max |-> IF playerId \in DOMAIN epochBest
                               THEN Max(epochBest[playerId].max, score.val \div ScoreUnit)
                               ELSE score.val \div ScoreUnit,
                       best |-> best])
               /\ UNCHANGED <<currentDay, touched>>
    /\ UNCHANGED grants
    /\ UNCHANGED <<now, runSeq, lastManualReset, MONEY_DROP_AMOUNT, winners, hub>>

(***************************************************************************)
(* POST /purchase                                                          *)
(***************************************************************************)
\* ITEM_PRICES is an object literal, so ITEM_PRICES[item] also finds what the
\* literal inherits from Object.prototype: functions and objects, which are
\* truthy and whose numeric value is NaN.  NaN is written as the one negative
\* amount; a balance is never negative otherwise.
NaN == 0 - 1
Inherited == {"constructor", "toString", "valueOf", "hasOwnProperty", "__proto__"}

\* ITEM_PRICES[item] is truthy.
HasPrice(item) == item \in DOMAIN ITEM_PRICES \/ item \in Inherited
\* ITEM_PRICES[item] as a number.
PriceOf(item) == IF item \in DOMAIN ITEM_PRICES THEN ITEM_PRICES[item] ELSE NaN
\* a < b and a - b on numbers: a comparison with NaN is false, a difference
\* with NaN is NaN.
Less(a, b) == IF a = NaN \/ b = NaN THEN FALSE ELSE a < b
Minus(a, b) == IF a = NaN \/ b = NaN THEN NaN ELSE a - b

\* The player record after paying for the item and receiving its effect.
Bought(p, item) ==
    [p EXCEPT !.credits = Minus(@, PriceOf(item)),
              !.saveFromReset = IF item = "SAVE_FROM_RESET" THEN @ + 1 ELSE @,
              !.flashShieldActive = IF item = "SAVE_FROM_FLASHBANGS" THEN TRUE ELSE @]

PurchaseResponse(playerId, item) ==
    IF playerId \notin DOMAIN players THEN Error(400, "Invalid player")
    ELSE IF ~HasPrice(item) THEN Error(400, "Invalid item")
    ELSE IF Less(players[playerId].credits, PriceOf(item))
    THEN Error(400, "Not enough credits")
    ELSE LET q == Bought(players[playerId], item) IN
         Ok([ok |-> TRUE, credits |-> q.credits,
             player |-> [flashShieldActive |-> q.flashShieldActive,
                         saveFromReset |-> q.saveFromReset]])

Purchase(playerId, item) ==
    /\ IF PurchaseResponse(playerId, item).status # 200 THEN UNCHANGED players
       ELSE players' = [players EXCEPT ![playerId] = Bought(@, item)]
    /\ UNCHANGED grants
    /\ UNCHANGED <<now, board, runs, runSeq, lastManualReset, MONEY_DROP_AMOUNT,
                   winners, hub>>

(***************************************************************************)
(* POST /use-item                                                          *)
(***************************************************************************)
\* A faulty variant of InCooldown that still rejects at exactly five minutes.
InCooldownInclusive(diff) == diff <= RESET_COOLDOWN_MS

\* diff < RESET_COOLDOWN_MS
InCooldown(diff) == diff < RESET_COOLDOWN_MS
\* Math.ceil((RESET_COOLDOWN_MS - diff)/1000)
SecondsLeft(diff) == CeilDiv(RESET_COOLDOWN_MS - diff, SecondMs)

UseItemResponse(playerId, item) ==
    IF playerId \notin DOMAIN players THEN Error(400, "Invalid player")
    ELSE IF item = "FLASHBANG" THEN Ok([ok |-> TRUE])
    ELSE IF item = "RESET_LEADERBOARD"
    THEN IF InCooldown(now - lastManualReset)
         THEN [status |-> 429,
               body |-> [error |-> "RESET_COOLDOWN",
                         secondsLeft |-> SecondsLeft(now - lastManualReset)]]
         ELSE Ok([ok |-> TRUE])
    ELSE Error(400, "Item cannot be used or not implemented")

\* At most 50 other connected players are drawn; the model has fewer.
UseItemEvents(playerId, item) ==
    IF UseItemResponse(playerId, item).status # 200 THEN {}
    ELSE IF item = "FLASHBANG"
    THEN UNION {sseSendTo(id, "flashbang", [by |-> playerId, ts |-> now]) :
                  id \in (DOMAIN sseClients) \ {playerId}}
    ELSE broadcast("forceReset", [manual |-> TRUE, newDay |-> currentDay])

\* Whether POST /use-item resets the leaderboard.
Resets(playerId, item) ==
    UseItemResponse(playerId, item).status = 200 /\ item = "RESET_LEADERBOARD"

\* lastManualReset after POST /use-item.
UseItemLastReset(playerId, item) ==
    IF Resets(playerId, item) THEN now ELSE lastManualReset

\* A faulty variant of UseItemBoards that spares the entries of the players
\* who hold a save.
UseItemBoardsSaved(playerId, item) ==
    IF Resets(playerId, item)
    THEN [leaderboards EXCEPT ![currentDay] =
            SelectSeq(@, LAMBDA e : players[e.playerId].saveFromReset > 0)]
    ELSE leaderboards

\* A faulty variant of UseItemBoards that empties the closed leaderboards too.
UseItemBoardsAll(playerId, item) ==
    IF Resets(playerId, item)
    THEN [d \in DOMAIN leaderboards |-> <<>>]
    ELSE leaderboards

\* The leaderboards after POST /use-item.
UseItemBoards(playerId, item) ==
    IF Resets(playerId, item)
    THEN [leaderboards EXCEPT ![currentDay] = <<>>]
    ELSE leaderboards

UseItem(playerId, item) ==
    /\ lastManualReset' = UseItemLastReset(playerId, item)
    /\ leaderboards' = UseItemBoards(playerId, item)
    /\ touched' = IF Resets(playerId, item)
                  THEN touched \cup MapKeys(leaderboards[currentDay])
                  ELSE touched
    /\ UNCHANGED grants
    /\ UNCHANGED <<now, currentDay, epochBest, players, runs, runSeq,
                   MONEY_DROP_AMOUNT, winners, hub>>

(***************************************************************************)
(* POST /set-drop.  The requested amount is counted in thousandths, the    *)
(* stored prize in cents.                                                  *)
(***************************************************************************)
\* Math.round(num * 100) / 100
RoundCents(amount) == (amount + 5) \div 10

SetDropResponse(playerId, amount) ==
    IF playerId \notin DOMAIN players THEN Error(400, "Invalid player")
    ELSE IF ~players[playerId].isAdmin THEN Error(403, "Not admin")
    ELSE IF amount <= 0 THEN Error(400, "Invalid amount")
    ELSE Ok([ok |-> TRUE, amount |-> RoundCents(amount)])

SetDropEvents(playerId, amount) ==
    IF SetDropResponse(playerId, amount).status # 200 THEN {}
    ELSE broadcast("dropUpdated", [amount |-> RoundCents(amount)])

SetDrop(playerId, amount) ==
    /\ IF SetDropResponse(playerId, amount).status # 200
       THEN UNCHANGED MONEY_DROP_AMOUNT
       ELSE MONEY_DROP_AMOUNT' = RoundCents(amount)
    /\ UNCHANGED grants
    /\ UNCHANGED <<now, board, players, runs, runSeq, lastManualReset, winners, hub>>

(***************************************************************************)
(* Claim verification.  A request's claimSecret of 0 stands for a missing  *)
(* or empty one, a playerId or claimCode of 0 for a missing one.           *)
(***************************************************************************)
ADMIN_KEY == "dev-key"

\* A faulty variant of SecretMatches that accepts every secret.
AnySecret(claimSecret, w) == TRUE

\* hash === w.claimHash
SecretMatches(claimSecret, w) == Sha256(claimSecret) = w.claimHash

\* A faulty variant of Verified that also brings the prize up to date.
VerifiedRepriced(w) == [x \in (DOMAIN w) \cup {"verifiedAt"} |->
                          IF x = "verified" THEN TRUE
                          ELSE IF x = "verifiedAt" THEN now
                          ELSE IF x = "prize" THEN MONEY_DROP_AMOUNT
                          ELSE w[x]]

\* w.verified = true; w.verifiedAt = new Date().toISOString()
Verified(w) == [x \in (DOMAIN w) \cup {"verifiedAt"} |->
                  IF x = "verified" THEN TRUE
                  ELSE IF x = "verifiedAt" THEN now
                  ELSE w[x]]

\* { ...w, claimHash: undefined } as JSON
WithoutHash(w) == [x \in (DOMAIN w) \ {"claimHash"} |-> w[x]]

\* POST /admin/verify-claim
VerifyClaimResponse(key, day, playerId, claimSecret) ==
    IF key # ADMIN_KEY THEN Error(403, "forbidden")
    ELSE IF day \notin DOMAIN winners \/ winners[day].playerId # playerId
    THEN Error(404, "not-found")
    ELSE IF ~SecretMatches(claimSecret, winners[day]) THEN Error(400, "bad-secret")
    ELSE Ok([ok |-> TRUE, winner |-> WithoutHash(Verified(winners[day]))])

\* The winners after POST /admin/verify-claim.
VerifyClaimWinners(key, day, playerId, claimSecret) ==
    IF VerifyClaimResponse(key, day, playerId, claimSecret).status # 200
    THEN winners
    ELSE [winners EXCEPT ![day] = Verified(@)]

VerifyClaim(key, day, playerId, claimSecret) ==
    /\ winners' = VerifyClaimWinners(key, day, playerId, claimSecret)
    /\ UNCHANGED grants
    /\ UNCHANGED <<now, board, players, runs, runSeq, lastManualReset,
                   MONEY_DROP_AMOUNT, hub>>

\* Object.keys(winners).find(d => ...): the first day, in insertion order,
\* whose record has this playerId and claimCode.
ClaimDays(playerId, claimCode) ==
    {d \in DOMAIN winners :
        winners[d].playerId = playerId /\ winners[d].claimCode = claimCode}
FirstDay(days) == CHOOSE d \in days : \A e \in days : d <= e

\* POST /verify-winner
VerifyWinnerResponse(playerId, claimCode, claimSecret) ==
    IF playerId = 0 \/ claimCode = 0 \/ claimSecret = 0
    THEN Error(400, "Missing parameters")
    ELSE IF ClaimDays(playerId, claimCode) = {} THEN Error(404, "Invalid claim")
    ELSE LET w == winners[FirstDay(ClaimDays(playerId, claimCode))] IN
         IF ~SecretMatches(claimSecret, w) THEN Error(403, "Invalid verification")
         ELSE Ok([ok |-> TRUE, name |-> w.name, score |-> w.score,
                  prize |-> w.prize, day |-> w.day])

\* The winners after POST /verify-winner.
VerifyWinnerWinners(playerId, claimCode, claimSecret) ==
    IF VerifyWinnerResponse(playerId, claimCode, claimSecret).status # 200
    THEN winners
    ELSE [winners EXCEPT ![FirstDay(ClaimDays(playerId, claimCode))] = Verified(@)]

VerifyWinner(playerId, claimCode, claimSecret) ==
    /\ winners' = VerifyWinnerWinners(playerId, claimCode, claimSecret)
    /\ UNCHANGED grants
    /\ UNCHANGED <<now, board, players, runs, runSeq, lastManualReset,
                   MONEY_DROP_AMOUNT, hub>>

(***************************************************************************)
(* The read-only routes.                                                   *)
(***************************************************************************)
Null == [null |-> TRUE]
LastDay == CHOOSE d \in DOMAIN winners : \A e \in DOMAIN winners : e <= d

\* GET /yesterday-winner
GetYesterdayWinner == IF DOMAIN winners = {} THEN Null ELSE winners[LastDay]

\* GET /winners?limit: the records of the last `limit` days
WinnersLimit(limit) == Max(1, Min(limit, 30))
GetWinners(limit) ==
    {winners[d] : d \in {x \in DOMAIN winners :
        Cardinality({y \in DOMAIN winners : y > x}) < WinnersLimit(limit)}}

\* GET /me/winner?playerId
GetMeWinner(playerId) ==
    IF playerId \notin DOMAIN players THEN Null
    ELSE IF DOMAIN winners = {} THEN Null
    ELSE IF winners[LastDay].playerId # playerId THEN Null
    ELSE LET w == winners[LastDay] IN
         [day |-> w.day, prize |-> w.prize, verified |-> w.verified, paid |-> w.paid]

(***************************************************************************)
(* The requests and clock readings explored.  An environment E names the   *)
(* instants at which the clock is read, the values requests carry, and how *)
(* many players, runs and connections are created and credits spent.       *)
(***************************************************************************)
StartDay == dayKey(StartTime)
NotANumber == [finite |-> FALSE, val |-> 0]
Number(v) == [finite |-> TRUE, val |-> v]
Samples(n, a, b) == [i \in 1..n |-> IF i % 2 = 1 THEN a ELSE b]

\* The credits player playerId has after buying item, at least.  A player
\* whose balance is NaN is held to the saves the budget would pay for.
Affordable(E, playerId, item) ==
    IF playerId \notin DOMAIN players \/ item \notin DOMAIN ITEM_PRICES THEN TRUE
    ELSE IF players[playerId].credits = NaN
    THEN (players[playerId].saveFromReset + 1) * ITEM_PRICES.SAVE_FROM_RESET
           <= E.maxSpend
    ELSE StartCredits(players[playerId].isAdmin) - players[playerId].credits
           + ITEM_PRICES[item] <= E.maxSpend

NextFor(E) ==
    \/ AdvanceClock(E.times)
    \/ Tick(E.drawn)
    \/ \E playerId \in E.sinks :
          Cardinality(DOMAIN conns) < E.maxConns /\ Connect(playerId)
    \/ \E c \in DOMAIN conns : Close(c)
    \/ \E name \in E.names :
          Cardinality(DOMAIN players) < E.maxPlayers /\ Register(name)
    \/ \E playerId \in E.playerIds : runSeq < E.maxRuns /\ StartRun(playerId)
    \/ \E playerId \in E.playerIds, playerName \in E.playerNames,
          score \in E.scores, runId \in E.runIds, jumpIntervals \in E.intervals :
            SubmitScore(playerId, playerName, score, runId, jumpIntervals)
    \/ \E playerId \in E.playerIds, item \in E.items :
          Affordable(E, playerId, item) /\ Purchase(playerId, item)
    \/ \E playerId \in E.playerIds, item \in E.useItems : UseItem(playerId, item)
    \/ \E playerId \in E.playerIds, amount \in E.amounts : SetDrop(playerId, amount)
    \/ \E key \in E.keys, day \in E.days, playerId \in E.playerIds,
          claimSecret \in E.secrets : VerifyClaim(key, day, playerId, claimSecret)
    \/ \E playerId \in E.playerIds, claimCode \in E.days, claimSecret \in E.secrets :
          VerifyWinner(playerId, claimCode, claimSecret)
    \/ \E playerId \in E.playerIds : ClaimGrants(playerId)

\* Days: the clock is read at the start of each day and ten seconds later.
DayTimes(days) ==
    {StartTime + d * DayMs + o : d \in 0..days, o \in {0, 10 * SecondMs}}

Epochs ==
    [times |-> DayTimes(MaxDays),
     maxPlayers |-> MaxPlayers, maxRuns |-> MaxRuns, maxConns |-> MaxConns,
     maxSpend |-> MaxSpend,
     sinks |-> {1},
     names |-> {<<>>, <<"a">>},
     playerIds |-> 0..MaxPlayers,
     runIds |-> 1..MaxRuns,
     playerNames |-> {<<>>},
     scores |-> {Number(-1), Number(1), Number(7)},
     intervals |-> {<<>>},
     items |-> {"SAVE_FROM_RESET"},
     useItems |-> {"RESET_LEADERBOARD"},
     amounts |-> {0},
     keys |-> {"nope"},
     days |-> {StartDay},
     secrets |-> {0},
     drawn |-> 1..MaxSecrets]

Next == NextFor(Epochs)
Spec == Init /\ [][Next]_vars

\* Rollovers: two players over consecutive days, each able to buy two saves.
Saves ==
    [times |-> {StartTime + d * DayMs : d \in 0..(MaxDays + 1)},
     maxPlayers |-> MaxPlayers, maxRuns |-> MaxRuns, maxConns |-> MaxConns,
     maxSpend |-> 2 * MaxSpend,
     sinks |-> {1},
     names |-> {<<"a">>},
     playerIds |-> 1..MaxPlayers,
     runIds |-> 1..MaxRuns,
     playerNames |-> {<<>>},
     scores |-> {Number(1), Number(1000)},
     intervals |-> {<<>>},
     items |-> {"SAVE_FROM_RESET"},
     useItems |-> {"FLASHBANG"},
     amounts |-> {0},
     keys |-> {"nope"},
     days |-> {StartDay},
     secrets |-> {0},
     drawn |-> {1}]

NextSaves == NextFor(Saves)
SpecSaves == Init /\ [][NextSaves]_vars

\* Claims: winners are verified with right, wrong and missing secrets, with
\* and without the admin key.
Claims ==
    [times |-> {StartTime + d * DayMs : d \in 0..MaxDays},
     maxPlayers |-> MaxPlayers, maxRuns |-> MaxRuns, maxConns |-> MaxConns,
     maxSpend |-> 0,
     sinks |-> {1},
     names |-> {<<"a">>},
     playerIds |-> 0..MaxPlayers,
     runIds |-> 1..MaxRuns,
     playerNames |-> {<<>>},
     scores |-> {Number(7)},
     intervals |-> {<<>>},
     items |-> {"SAVE_FROM_RESET"},
     useItems |-> {"FLASHBANG"},
     amounts |-> {0},
     keys |-> {ADMIN_KEY, "nope"},
     days |-> {0} \cup (StartDay..(StartDay + MaxDays)),
     secrets |-> 0..MaxSecrets,
     drawn |-> 1..MaxSecrets]

NextClaims == NextFor(Claims)
SpecClaims == Init /\ [][NextClaims]_vars

\* Anti-cheat: runs are submitted 2 s to 101 s after their start, with scores
\* 3.5, 48.5 and 600 and with no, nine, ten and twelve interval samples.
AntiCheat ==
    [times |-> {StartTime + o : o \in {0, 3000, 9000, 99000, 100999, 101000}},
     maxPlayers |-> MaxPlayers, maxRuns |-> MaxRuns, maxConns |-> MaxConns,
     maxSpend |-> 0,
     sinks |-> {1},
     names |-> {<<"a">>},
     playerIds |-> 1..MaxPlayers,
     runIds |-> 1..MaxRuns,
     playerNames |-> {<<>>},
     scores |-> {Number(7), Number(97), Number(1200)},
     intervals |-> {<<>>, Samples(9, 100, 100), Samples(10, 100, 100),
                    Samples(12, 100, 100), Samples(10, 0, 100), Samples(10, 0, 99)},
     items |-> {"SAVE_FROM_RESET"},
     useItems |-> {"FLASHBANG"},
     amounts |-> {0},
     keys |-> {"nope"},
     days |-> {StartDay},
     secrets |-> {0},
     drawn |-> {1}]

NextAntiCheat == NextFor(AntiCheat)
SpecAntiCheat == Init /\ [][NextAntiCheat]_vars

\* Cooldown: resets are requested 1 ms to 300001 ms after one another.
Cooldown ==
    [times |-> {StartTime + o : o \in {0, 1, 1000, 299001, 300000, 300001}},
     maxPlayers |-> MaxPlayers, maxRuns |-> MaxRuns, maxConns |-> MaxConns,
     maxSpend |-> 0,
     sinks |-> {1},
     names |-> {<<"a">>},
     playerIds |-> 0..MaxPlayers,
     runIds |-> 1..MaxRuns,
     playerNames |-> {<<>>},
     scores |-> {Number(7)},
     intervals |-> {<<>>},
     items |-> {"SAVE_FROM_RESET"},
     useItems |-> {"RESET_LEADERBOARD", "FLASHBANG"},
     amounts |-> {0},
     keys |-> {"nope"},
     days |-> {StartDay},
     secrets |-> {0},
     drawn |-> {1}]

NextCooldown == NextFor(Cooldown)
SpecCooldown == Init /\ [][NextCooldown]_vars

\* Grants: up to MaxGrants units are queued, one or two at a time, for
\* a registered and an unregistered player id, and polled.
Grants ==
    [times |-> {StartTime, StartTime + DayMs},
     maxPlayers |-> MaxPlayers, maxRuns |-> MaxRuns, maxConns |-> MaxConns,
     maxSpend |-> 0,
     sinks |-> {1},
     names |-> {<<"a">>},
     playerIds |-> 0..MaxPlayers,
     runIds |-> 1..MaxRuns,
     playerNames |-> {<<>>},
     scores |-> {Number(7)},
     intervals |-> {<<>>},
     items |-> {"FLASHBANG", "SAVE_FROM_RESET"},
     useItems |-> {"FLASHBANG"},
     amounts |-> {0},
     keys |-> {"nope"},
     days |-> {StartDay},
     secrets |-> {0},
     drawn |-> {1},
     grantees |-> {0, 1}]

\* The units queued so far, over all players and items.
RECURSIVE Units(_)
Units(history) ==
    IF DOMAIN history = {} THEN 0
    ELSE LET p == CHOOSE x \in DOMAIN history : TRUE
             cur == history[p]
             RECURSIVE Total(_)
             Total(is) == IF is = {} THEN 0
                          ELSE LET i == CHOOSE x \in is : TRUE
                               IN cur[i] + Total(is \ {i})
         IN Total(DOMAIN cur) + Units(Drop(history, p))

NextGrants ==
    \/ NextFor(Grants)
    \/ \E playerId \in Grants.grantees, item \in Grants.items, count \in 1..2 :
          Units(queued) + count <= MaxGrants /\ queueGrant(playerId, item, count)
SpecGrants == Init /\ [][NextGrants]_vars

\* Reconnects: each player id may open a stream, reopen it, and close either
\* connection, around a rollover that draws a secret for the winner.
Hub ==
    [times |-> {StartTime + d * DayMs : d \in 0..MaxDays},
     maxPlayers |-> MaxPlayers, maxRuns |-> MaxRuns, maxConns |-> MaxConns + 1,
     maxSpend |-> 0,
     sinks |-> 1..MaxPlayers,
     names |-> {<<"a">>},
     playerIds |-> 0..MaxPlayers,
     runIds |-> 1..MaxRuns,
     playerNames |-> {<<>>},
     scores |-> {Number(7)},
     intervals |-> {<<>>},
     items |-> {"SAVE_FROM_RESET"},
     useItems |-> {"FLASHBANG"},
     amounts |-> {0},
     keys |-> {ADMIN_KEY, "nope"},
     days |-> {0, StartDay},
     secrets |-> 0..MaxSecrets,
     drawn |-> 1..MaxSecrets]

NextHub == NextFor(Hub)
SpecHub == Init /\ [][NextHub]_vars

\* Rejections: one player meets every error answer of the routes: malformed
\* and early submissions, a mechanical rhythm, unknown items, an empty purse,
\* a second reset within the cooldown, and wrong claims and keys.
Errors ==
    [times |-> {StartTime, StartTime + 9 * SecondMs, StartTime + DayMs},
     maxPlayers |-> 1, maxRuns |-> MaxRuns, maxConns |-> MaxConns,
     maxSpend |-> 5 * MaxSpend,
     sinks |-> {1},
     names |-> {<<>>, <<"a">>},
     playerIds |-> 0..1,
     runIds |-> 1..MaxRuns,
     playerNames |-> {<<>>},
     scores |-> {NotANumber, Number(-1), Number(7)},
     intervals |-> {<<>>, Samples(10, 100, 100)},
     items |-> {"SAVE_FROM_RESET", "NO_SUCH_ITEM"},
     useItems |-> {"RESET_LEADERBOARD", "NO_SUCH_ITEM"},
     amounts |-> {0},
     keys |-> {ADMIN_KEY, "nope"},
     days |-> {0, StartDay},
     secrets |-> 0..MaxSecrets,
     drawn |-> {1},
     grantees |-> {1}]

NextErrors ==
    \/ NextFor(Errors)
    \/ \E playerId \in Errors.grantees :
          Units(queued) < 1 /\ queueGrant(playerId, "FLASHBANG", 1)
SpecErrors == Init /\ [][NextErrors]_vars

\* Closed days: two rollovers, with scores, saves and manual resets on each
\* day.
Closing ==
    [times |-> DayTimes(MaxDays + 1) \ {StartTime + 10 * SecondMs},
     maxPlayers |-> MaxPlayers, maxRuns |-> MaxRuns, maxConns |-> MaxConns,
     maxSpend |-> MaxSpend,
     sinks |-> {1},
     names |-> {<<"a">>},
     playerIds |-> 1..MaxPlayers,
     runIds |-> 1..MaxRuns,
     playerNames |-> {<<>>},
     scores |-> {Number(1), Number(7)},
     intervals |-> {<<>>},
     items |-> {"SAVE_FROM_RESET"},
     useItems |-> {"RESET_LEADERBOARD"},
     amounts |-> {0},
     keys |-> {"nope"},
     days |-> {StartDay},
     secrets |-> {0},
     drawn |-> {1}]

NextClosing == NextFor(Closing)
SpecClosing == Init /\ [][NextClosing]_vars

\* Names: registrations with a plain name, blanks, the admin trigger alone
\* and inside a name, and names of 17 and 33 characters; submissions that
\* rename the player.
Letters(n) == [i \in 1..n |-> "a"]
Names ==
    [times |-> {StartTime, StartTime + 9 * SecondMs, StartTime + DayMs},
     maxPlayers |-> 1, maxRuns |-> 1, maxConns |-> MaxConns,
     maxSpend |-> 0,
     sinks |-> {1},
     names |-> {<<>>, <<" ">>, <<"a">>, ADMIN_TRIGGER, <<"a">> \o ADMIN_TRIGGER,
                Letters(17), Letters(33)},
     playerIds |-> 0..1,
     runIds |-> {1},
     playerNames |-> {<<>>, <<"b">>, Letters(16), Letters(17)},
     scores |-> {Number(7)},
     intervals |-> {<<>>},
     items |-> {"SAVE_FROM_RESET"},
     useItems |-> {"FLASHBANG"},
     amounts |-> {0},
     keys |-> {"nope"},
     days |-> {StartDay},
     secrets |-> {0},
     drawn |-> {1}]

NextNames == NextFor(Names)
SpecNames == Init /\ [][NextNames]_vars

\* The timer: runs that reach and pass the age of one hour, and two day
\* changes, with the tick that setInterval fires every second taken again
\* and again.
Live ==
    [times |-> {StartTime, StartTime + HourMs, StartTime + HourMs + 1,
                StartTime + DayMs, StartTime + 2 * DayMs},
     maxPlayers |-> 1, maxRuns |-> MaxRuns, maxConns |-> MaxConns + 1,
     maxSpend |-> 0,
     sinks |-> 1..2,
     names |-> {<<"a">>},
     playerIds |-> {1},
     runIds |-> 1..MaxRuns,
     playerNames |-> {<<>>},
     scores |-> {Number(7)},
     intervals |-> {<<>>},
     items |-> {"SAVE_FROM_RESET"},
     useItems |-> {"FLASHBANG"},
     amounts |-> {0},
     keys |-> {"nope"},
     days |-> {StartDay},
     secrets |-> {0},
     drawn |-> {1}]

NextLive == NextFor(Live)
SpecLive == Init /\ [][NextLive]_vars /\ WF_vars(Tick(Live.drawn))

\* Purchases: one player buys saves and the shield until the credits run
\* out, names an item the price list lacks and one it inherits, and loses a
\* save at a rollover.
Purse ==
    [times |-> {StartTime, StartTime + DayMs},
     maxPlayers |-> 1, maxRuns |-> 1, maxConns |-> MaxConns,
     maxSpend |-> 5 * MaxSpend,
     sinks |-> {1},
     names |-> {<<"a">>},
     playerIds |-> 0..1,
     runIds |-> {1},
     playerNames |-> {<<>>},
     scores |-> {Number(7)},
     intervals |-> {<<>>},
     items |-> {"SAVE_FROM_RESET", "SAVE_FROM_FLASHBANGS", "NO_SUCH_ITEM", "constructor"},
     useItems |-> {"FLASHBANG"},
     amounts |-> {0},
     keys |-> {"nope"},
     days |-> {StartDay},
     secrets |-> {0},
     drawn |-> {1}]

NextPurse == NextFor(Purse)
SpecPurse == Init /\ [][NextPurse]_vars

\* Records: an admin player scores, is renamed by a submission, changes the
\* prize, resets the leaderboard and verifies claims, over two rollovers.
Records ==
    [times |-> {StartTime + d * DayMs : d \in 0..(MaxDays + 1)},
     maxPlayers |-> 1, maxRuns |-> 1, maxConns |-> MaxConns,
     maxSpend |-> 0,
     sinks |-> {1},
     names |-> {<<"a">> \o ADMIN_TRIGGER},
     playerIds |-> {1},
     runIds |-> {1},
     playerNames |-> {<<>>, <<"b">>},
     scores |-> {Number(7)},
     intervals |-> {<<>>},
     items |-> {"SAVE_FROM_RESET"},
     useItems |-> {"RESET_LEADERBOARD"},
     amounts |-> {0, 50000},
     keys |-> {ADMIN_KEY, "nope"},
     days |-> {0, StartDay, StartDay + 1},
     secrets |-> 0..1,
     drawn |-> {1}]

NextRecords == NextFor(Records)
SpecRecords == Init /\ [][NextRecords]_vars

\* Manual resets: players with and without a save or a purchased reset use
\* RESET_LEADERBOARD inside and outside the cooldown, before and after a
\* rollover.
Manual ==
    [times |-> {StartTime, StartTime + 10 * SecondMs,
                StartTime + 10 * SecondMs + RESET_COOLDOWN_MS, StartTime + DayMs},
     maxPlayers |-> MaxPlayers, maxRuns |-> MaxRuns, maxConns |-> MaxConns,
     maxSpend |-> 2 * MaxSpend,
     sinks |-> {1},
     names |-> {<<"a">>},
     playerIds |-> 0..MaxPlayers,
     runIds |-> 1..MaxRuns,
     playerNames |-> {<<>>},
     scores |-> {Number(7)},
     intervals |-> {<<>>},
     items |-> {"SAVE_FROM_RESET", "RESET_LEADERBOARD"},
     useItems |-> {"RESET_LEADERBOARD"},
     amounts |-> {0},
     keys |-> {"nope"},
     days |-> {StartDay},
     secrets |-> {0},
     drawn |-> {1}]

NextManual == NextFor(Manual)
SpecManual == Init /\ [][NextManual]_vars

\* Carried scores: players buy a save, score, and are carried over a first
\* rollover; on the second day they submit lower and higher scores or none, or
\* the leaderboard is reset; a second rollover closes the second day.
Carry ==
    [times |-> {StartTime, StartTime + DayMs, StartTime + DayMs + 10 * SecondMs,
                StartTime + 2 * DayMs},
     maxPlayers |-> MaxPlayers, maxRuns |-> MaxRuns, maxConns |-> MaxConns,
     maxSpend |-> MaxSpend,
     sinks |-> {1},
     names |-> {<<"a">>},
     playerIds |-> 1..MaxPlayers,
     runIds |-> 1..MaxRuns,
     playerNames |-> {<<>>},
     scores |-> {Number(1), Number(1000), Number(2000)},
     intervals |-> {<<>>},
     items |-> {"SAVE_FROM_RESET"},
     useItems |-> {"RESET_LEADERBOARD"},
     amounts |-> {0},
     keys |-> {"nope"},
     days |-> {StartDay},
     secrets |-> {0},
     drawn |-> {1}]

NextCarry == NextFor(Carry)
SpecCarry == Init /\ [][NextCarry]_vars

(***************************************************************************)
(* Properties.                                                             *)
(***************************************************************************)
Board == leaderboards[currentDay]
ScoreOf(lb, p) == MapGet(lb, p).score
\* The whole part of a raw score, without Math.floor.
WholePart(v) == CHOOSE n \in 0..v : n * ScoreUnit <= v /\ v < (n + 1) * ScoreUnit

\* What every submit-score step leaves alone; a step that is not of this shape
\* is not a submit-score step.
SubmitFrame ==
    /\ vars' # vars
    /\ UNCHANGED <<now, currentDay, runSeq, lastManualReset, MONEY_DROP_AMOUNT,
                   winners, hub, touched>>
    /\ DOMAIN players' = DOMAIN players

\* An accepted submit-score step with these request fields.
Accepted(p, nm, s, r, iv) ==
    /\ SubmitResponse(p, nm, s, r, iv).status = 200
    /\ SubmitScore(p, nm, s, r, iv)

\* A successful use-item RESET_LEADERBOARD step.
ManualReset ==
    /\ lastManualReset' # lastManualReset
    /\ \E p \in DOMAIN players :
          /\ UseItemResponse(p, "RESET_LEADERBOARD").status = 200
          /\ UseItem(p, "RESET_LEADERBOARD")

\* C1 as stated: after every accepted submit-score call of a player, the
\* score stored for the player in the current leaderboard is the greatest
\* floored value the player has submitted in the epoch so far, and the best
\* returned is not below the best returned by the player's previous call of
\* the epoch.
C1_Original ==
    [][SubmitFrame =>
       \A p \in Epochs.playerIds, nm \in Epochs.playerNames, s \in Epochs.scores,
          r \in Epochs.runIds, iv \in Epochs.intervals :
         Accepted(p, nm, s, r, iv) =>
           /\ ScoreOf(leaderboards'[currentDay], p) = epochBest'[p].max
           /\ p \in DOMAIN epochBest => epochBest'[p].best >= epochBest[p].best]_vars

\* C1 as amended: after every accepted submit-score call the stored score is
\* the greater of the floored submitted value and the score the player's
\* entry held just before the call, and it is the best returned; for a player
\* whose entry of the epoch was neither carried over by save-from-reset nor
\* removed by a manual reset, it is the greatest floored value the player has
\* submitted in the epoch so far, and the best returned does not decrease
\* from one call to the next.
C1_StoredBest ==
    [][SubmitFrame =>
       \A p \in Epochs.playerIds, nm \in Epochs.playerNames, s \in Epochs.scores,
          r \in Epochs.runIds, iv \in Epochs.intervals :
         Accepted(p, nm, s, r, iv) =>
           LET stored == ScoreOf(leaderboards'[currentDay], p)
               best == SubmitResponse(p, nm, s, r, iv).body.best
           IN /\ stored = IF MapHas(Board, p)
                          THEN Max(ScoreOf(Board, p), WholePart(s.val))
                          ELSE WholePart(s.val)
              /\ best = stored
              /\ p \notin touched =>
                   /\ stored = epochBest'[p].max
                   /\ p \in DOMAIN epochBest => best >= epochBest[p].best]_vars

\* A second accepted call of a player in one epoch, with a lower score than
\* the first, has left the higher score stored.
C1_Witness ==
    \E p \in DOMAIN epochBest :
        /\ p \notin touched
        /\ MapHas(Board, p)
        /\ ScoreOf(Board, p) = 3
        /\ epochBest[p] = [max |-> 3, best |-> 3]
        /\ DOMAIN players = {p}
        /\ DOMAIN runs = {}
        /\ runSeq = 2
        /\ now = StartTime + 10 * SecondMs

\* C2 as stated: while currentDay is unchanged, no step of any operation
\* removes a player's entry of the current leaderboard or lowers its score.
C2_Original ==
    [][currentDay' = currentDay =>
         \A p \in MapKeys(Board) :
            /\ MapHas(leaderboards'[currentDay], p)
            /\ ScoreOf(leaderboards'[currentDay], p) >= ScoreOf(Board, p)]_vars

\* C2 as amended: while currentDay is unchanged, no step other than a
\* successful use-item RESET_LEADERBOARD removes a player's entry of the
\* current leaderboard or lowers its score; a successful reset removes them
\* all.
C2_MonotoneButReset ==
    [][currentDay' = currentDay =>
         IF ManualReset THEN leaderboards'[currentDay] = <<>>
         ELSE \A p \in MapKeys(Board) :
                /\ MapHas(leaderboards'[currentDay], p)
                /\ ScoreOf(leaderboards'[currentDay], p) >= ScoreOf(Board, p)]_vars

\* Two players hold entries, one of them after a lower second submission and
\* a purchase, and no manual reset has happened.
C2_Witness ==
    /\ lastManualReset = 0
    /\ Len(Board) = 2
    /\ \E p \in DOMAIN epochBest :
          /\ epochBest[p].max = 3
          /\ ScoreOf(Board, p) = 3
          /\ players[p].saveFromReset = 1
    /\ runSeq = 2

\* The fields of a winner record that only the rollover writes.
Written(w) ==
    [day |-> w.day, playerId |-> w.playerId, name |-> w.name, score |-> w.score,
     prize |-> w.prize, paid |-> w.paid, claimHash |-> w.claimHash,
     claimCode |-> w.claimCode]

\* C3: rollover happens once per day.  A tick whose day key equals currentDay
\* changes neither currentDay nor the leaderboards, the winners or the
\* players; a tick with another key moves currentDay to that key, so that the
\* next tick at that key is of the first kind; no other step changes
\* currentDay.  A winner record is written only by the tick that closes its
\* day, for a day that had no record, and what the rollover wrote in a record
\* never changes afterwards.
C3_RolloverOnce ==
    /\ [](/\ currentDay <= dayKey(now)
          /\ \A d \in DOMAIN winners : d < currentDay /\ winners[d].day = d)
    /\ [][/\ (Tick(Saves.drawn) /\ dayKey(now) = currentDay) =>
                UNCHANGED <<currentDay, leaderboards, winners, players>>
          /\ (Tick(Saves.drawn) /\ dayKey(now) # currentDay) =>
                currentDay' = dayKey(now) /\ dayKey(now') = currentDay'
          /\ currentDay' # currentDay =>
                Tick(Saves.drawn) /\ dayKey(now) # currentDay
          /\ \A d \in DOMAIN winners :
                d \in DOMAIN winners' /\ Written(winners'[d]) = Written(winners[d])
          /\ \A d \in DOMAIN winners' \ DOMAIN winners :
                d = currentDay /\ currentDay' # currentDay]_vars

\* Two days were closed, each with a winner record of its own.
C3_Witness ==
    /\ currentDay = StartDay + 2
    /\ DOMAIN winners = {StartDay, StartDay + 1}
    /\ winners[StartDay].score = 500
    /\ winners[StartDay + 1].score = 0

\* C4: save-from-reset at rollover.  In the step that changes currentDay, a
\* player with a positive counter k and an entry of positive score s in the
\* closing leaderboard has an entry of score s in the new leaderboard and
\* counter k - 1; a player with counter 0 has no entry in the new leaderboard;
\* a player without an entry of positive score in the closing leaderboard
\* keeps the counter.
C4_SaveFromReset ==
    [][currentDay' # currentDay =>
         \A p \in DOMAIN players :
            LET k == players[p].saveFromReset
                closing == leaderboards[currentDay]
                opened == leaderboards'[currentDay']
                scored == MapHas(closing, p) /\ ScoreOf(closing, p) > 0
            IN /\ (k > 0 /\ scored) =>
                     /\ MapHas(opened, p)
                     /\ ScoreOf(opened, p) = ScoreOf(closing, p)
                     /\ players'[p].saveFromReset = k - 1
               /\ k = 0 => ~MapHas(opened, p)
               /\ ~scored => players'[p].saveFromReset = k]_vars

\* After two consecutive rollovers a player who bought two saves holds the
\* 500 entry in both new leaderboards and has no save left, while the other
\* player, who scored in the first epoch without a save, has no entry.
C4_Witness ==
    /\ currentDay = StartDay + 2
    /\ \E p, q \in DOMAIN players :
          /\ p # q
          /\ players[p].saveFromReset = 0
          /\ players[p].credits = StartCredits(FALSE) - 2 * ITEM_PRICES.SAVE_FROM_RESET
          /\ MapHas(leaderboards[StartDay], p)
          /\ ScoreOf(leaderboards[StartDay], p) = 500
          /\ MapHas(leaderboards[StartDay], q)
          /\ players[q].credits = StartCredits(FALSE)
          /\ MapHas(leaderboards[StartDay + 1], p)
          /\ ScoreOf(leaderboards[StartDay + 1], p) = 500
          /\ ~MapHas(leaderboards[StartDay + 1], q)
          /\ Len(Board) = 1
          /\ ScoreOf(Board, p) = 500

\* What a verification must do to the winners: with a matching secret the
\* located record d is verified and no other record changes; otherwise
\* nothing changes.  In both cases no record's paid flag changes.
VerifiedAs(status, after, d, claimSecret) ==
    /\ DOMAIN after = DOMAIN winners
    /\ \A e \in DOMAIN winners : after[e].paid = winners[e].paid
    /\ IF Sha256(claimSecret) = winners[d].claimHash
       THEN /\ status = 200
            /\ after[d].verified
            /\ \A e \in DOMAIN winners \ {d} : after[e] = winners[e]
       ELSE /\ status # 200
            /\ after = winners

\* C5: in every reachable state, for a winner record located by the request
\* (and the right admin key on the admin path), each verification route
\* answers 200 and leaves the record verified exactly when the supplied
\* secret hashes to the record's claimHash, also when the record is verified
\* already; any other secret is rejected and the winners stay as they are;
\* and no verification request, located or not, changes a paid flag.
C5_Verification ==
    \A playerId \in Claims.playerIds, claimSecret \in Claims.secrets :
       /\ \A key \in Claims.keys, day \in Claims.days :
             LET after == VerifyClaimWinners(key, day, playerId, claimSecret)
                 status == VerifyClaimResponse(key, day, playerId, claimSecret).status
             IN IF /\ key = ADMIN_KEY
                   /\ day \in DOMAIN winners
                   /\ winners[day].playerId = playerId
                THEN VerifiedAs(status, after, day, claimSecret)
                ELSE status # 200 /\ after = winners
       /\ \A claimCode \in Claims.days :
             LET after == VerifyWinnerWinners(playerId, claimCode, claimSecret)
                 status == VerifyWinnerResponse(playerId, claimCode, claimSecret).status
                 found == {d \in DOMAIN winners : /\ winners[d].playerId = playerId
                                                    /\ winners[d].claimCode = claimCode}
             IN IF playerId # 0 /\ claimCode # 0 /\ found # {}
                THEN \E d \in found : VerifiedAs(status, after, d, claimSecret)
                ELSE status # 200 /\ after = winners

\* A winner record was verified, by a request carrying the secret drawn for it.
C5_Witness ==
    \E d \in DOMAIN winners :
       /\ winners[d].verified
       /\ winners[d].claimHash = Sha256(MaxSecrets)
       /\ ~winners[d].paid

\* Every event some request or tick can emit in this state.
Emitted ==
    UNION ({TickEvents(c) : c \in Claims.drawn}
      \cup {ConnectEvents(p) : p \in Claims.sinks}
      \cup {SubmitEvents(p, nm, sc, r, iv) :
              p \in Claims.playerIds, nm \in Claims.playerNames, sc \in Claims.scores,
              r \in Claims.runIds, iv \in Claims.intervals}
      \cup {UseItemEvents(p, it) : p \in Claims.playerIds, it \in Claims.useItems}
      \cup {SetDropEvents(p, a) : p \in Claims.playerIds, a \in Claims.amounts})

\* C6 as stated: in every reachable state no response of GET
\* /yesterday-winner, GET /winners, GET /me/winner or POST /verify-winner and
\* no event carries a claimHash field.
C6_HashNeverExposed ==
    /\ "claimHash" \notin DOMAIN GetYesterdayWinner
    /\ \A limit \in 1..2 : \A w \in GetWinners(limit) : "claimHash" \notin DOMAIN w
    /\ \A playerId \in Claims.playerIds :
          /\ "claimHash" \notin DOMAIN GetMeWinner(playerId)
          /\ \A claimCode \in Claims.days, claimSecret \in Claims.secrets :
                "claimHash" \notin
                   DOMAIN VerifyWinnerResponse(playerId, claimCode, claimSecret).body
    /\ \A e \in Emitted : "claimHash" \notin DOMAIN e.data

\* A registered player without the admin flag.
NonAdmin(p) == p \in DOMAIN players /\ ~players[p].isAdmin

\* C7: a run token is bound to its owner and used once.  An accepted
\* submit-score of a non-admin player names a run that is stored at that
\* moment under the submitting player, and removes it; every run id that
\* enters the store is larger than every id issued before, so a removed id
\* never returns; and a non-admin submission with a well-formed score that
\* names a run that is not stored, or is stored under another player, is
\* answered 400 "No active run".
C7_RunTokens ==
    /\ [](\A p \in Epochs.playerIds, nm \in Epochs.playerNames, s \in Epochs.scores,
             r \in Epochs.runIds, iv \in Epochs.intervals :
            (/\ NonAdmin(p)
             /\ s.finite /\ s.val >= 0
             /\ (r \notin DOMAIN runs \/ runs[r].playerId # p)) =>
               SubmitResponse(p, nm, s, r, iv) = Error(400, "No active run"))
    /\ [](\A r \in DOMAIN runs : r <= runSeq)
    /\ [][/\ SubmitFrame =>
             \A p \in Epochs.playerIds, nm \in Epochs.playerNames,
                s \in Epochs.scores, r \in Epochs.runIds, iv \in Epochs.intervals :
               (Accepted(p, nm, s, r, iv) /\ NonAdmin(p)) =>
                  /\ r \in DOMAIN runs
                  /\ runs[r].playerId = p
                  /\ r \notin DOMAIN runs'
          /\ \A r \in DOMAIN runs' \ DOMAIN runs : r > runSeq /\ r <= runSeq'
          /\ runSeq' >= runSeq]_vars

\* A run of one player was consumed by an accepted submission while a run of
\* the other player is still stored.
C7_Witness ==
    /\ runSeq = 2
    /\ DOMAIN runs = {2}
    /\ now < StartTime + HourMs
    /\ \E p \in DOMAIN players :
          /\ runs[2].playerId # p
          /\ MapHas(Board, p)
          /\ ~players[p].isAdmin

\* The error a response names, if any.
ErrorOf(response) ==
    IF "error" \in DOMAIN response.body THEN response.body.error ELSE ""

\* A request that reaches the anti-cheat rules: a well-formed score from a
\* non-admin player naming a stored run of the player's own.
Timed(p, s, r) ==
    /\ NonAdmin(p)
    /\ s.finite /\ s.val >= 0
    /\ r \in DOMAIN runs
    /\ runs[r].playerId = p

\* e + 2 < max(s / 6, 8) for e = ms / 1000 and s = val / ScoreUnit, without
\* division.
BelowMinimum(val, ms) ==
    \/ ms + 2 * SecondMs < 8 * SecondMs
    \/ 6 * ScoreUnit * (ms + 2 * SecondMs) < val * SecondMs

\* C8: in every reachable state a request that reaches the anti-cheat rules
\* is answered 400 "Too fast" exactly when e + 2 < max(s / 6, 8), whatever
\* interval samples it carries, and then the runs and the leaderboards stay as
\* they are; a score of 600 is rejected 90 s after the start of the run and
\* not rejected by this rule after 99 s.
C8_TooFast ==
    \A p \in AntiCheat.playerIds, nm \in AntiCheat.playerNames,
       s \in AntiCheat.scores, r \in AntiCheat.runIds, iv \in AntiCheat.intervals :
       Timed(p, s, r) =>
          LET ms == now - runs[r].startedAt
              response == SubmitResponse(p, nm, s, r, iv)
          IN /\ (response.status = 400 /\ ErrorOf(response) = "Too fast")
                   <=> BelowMinimum(s.val, ms)
             /\ BelowMinimum(s.val, ms) =>
                   /\ SubmitRuns(p, nm, s, r, iv) = runs
                   /\ SubmitBoards(p, nm, s, r, iv) = leaderboards
             /\ (s.val = 600 * ScoreUnit /\ ms = 90 * SecondMs) =>
                   ErrorOf(response) = "Too fast"
             /\ (s.val = 600 * ScoreUnit /\ ms = 99 * SecondMs) =>
                   ErrorOf(response) # "Too fast"

\* A player scored 600 with one run and holds another run that is 90 s old,
\* on which 600 is too fast.
C8_Witness ==
    \E p \in DOMAIN players : \E r \in DOMAIN runs :
       /\ MapHas(Board, p)
       /\ ScoreOf(Board, p) = 600
       /\ runs[r].playerId = p
       /\ now - runs[r].startedAt = 90 * SecondMs

\* The sum of the squared differences of all pairs of samples: n * n times
\* the population variance.
RECURSIVE PairSquares(_)
PairSquares(iv) ==
    IF Len(iv) < 2 THEN 0
    ELSE Sum([i \in 1..(Len(iv) - 1) |-> (iv[1] - iv[i + 1]) * (iv[1] - iv[i + 1])])
           + PairSquares(Tail(iv))

\* C9: in every reachable state a request that reaches the anti-cheat rules
\* and passes the minimum-time rule is answered 400 "Unnatural rhythm"
\* exactly when it carries at least 10 samples whose population variance is
\* below 50 * 50, and is accepted otherwise; so 10 or more identical samples
\* are rejected and fewer than 10 samples never are.
C9_Rhythm ==
    \A p \in AntiCheat.playerIds, nm \in AntiCheat.playerNames,
       s \in AntiCheat.scores, r \in AntiCheat.runIds, iv \in AntiCheat.intervals :
       (Timed(p, s, r) /\ ~BelowMinimum(s.val, now - runs[r].startedAt)) =>
          LET response == SubmitResponse(p, nm, s, r, iv)
              n == Len(iv)
              mechanical == n >= 10 /\ PairSquares(iv) < 50 * 50 * n * n
          IN /\ (response = Error(400, "Unnatural rhythm")) <=> mechanical
             /\ ~mechanical => response.status = 200
             /\ (n >= 10 /\ \A i \in 1..n : iv[i] = iv[1]) =>
                   response = Error(400, "Unnatural rhythm")
             /\ n < 10 => response.status = 200

\* A run is old enough for every score, so that only the rhythm rule decides,
\* and its owner already had a submission accepted.
C9_Witness ==
    \E r \in DOMAIN runs :
       /\ now - runs[r].startedAt = 101 * SecondMs
       /\ MapHas(Board, runs[r].playerId)
       /\ ~players[runs[r].playerId].isAdmin

\* C10: the manual reset cooldown is global.  In every reachable state a
\* RESET_LEADERBOARD request of any registered player less than five minutes
\* after lastManualReset is answered 429 RESET_COOLDOWN with secondsLeft the
\* remaining time rounded up to whole seconds, and leaves the leaderboards and
\* lastManualReset as they are; five minutes or more after it, the request is
\* answered 200, empties the current leaderboard and sets lastManualReset to
\* the time of the request.  lastManualReset changes in no other way.
C10_ResetCooldown ==
    /\ [](\A p \in DOMAIN players :
            LET diff == now - lastManualReset
                response == UseItemResponse(p, "RESET_LEADERBOARD")
                boards == UseItemBoards(p, "RESET_LEADERBOARD")
                stamp == UseItemLastReset(p, "RESET_LEADERBOARD")
            IN IF diff < 5 * 60 * SecondMs
               THEN /\ response.status = 429
                    /\ response.body.error = "RESET_COOLDOWN"
                    /\ response.body.secondsLeft * SecondMs >= 5 * 60 * SecondMs - diff
                    /\ (response.body.secondsLeft - 1) * SecondMs
                          < 5 * 60 * SecondMs - diff
                    /\ boards = leaderboards
                    /\ stamp = lastManualReset
               ELSE /\ response = Ok([ok |-> TRUE])
                    /\ boards[currentDay] = <<>>
                    /\ \A d \in DOMAIN leaderboards \ {currentDay} :
                          boards[d] = leaderboards[d]
                    /\ stamp = now)
    /\ [][lastManualReset' # lastManualReset =>
            /\ lastManualReset' = now
            /\ now - lastManualReset >= 5 * 60 * SecondMs
            /\ leaderboards'[currentDay] = <<>>
            /\ \E p \in DOMAIN players : UseItem(p, "RESET_LEADERBOARD")]_vars

\* 999 ms before the end of a cooldown two players are registered and one of
\* them has scored since the reset.
C10_Witness ==
    /\ lastManualReset >= StartTime
    /\ now - lastManualReset = 299001
    /\ Cardinality(DOMAIN players) = 2
    /\ Board # <<>>

\* C11: pending grants drain atomically.  In every reachable state what is
\* pending for a player and item is what was queued less what was polled, so
\* that no queued unit is lost or returned twice; a poll answers the whole
\* mapping pending for the player and leaves no entry for the player, so that
\* a poll that follows it with no queueGrant in between answers the empty
\* mapping; and queueGrant adds its count to what is pending for the item.
C11_GrantsDrain ==
    /\ [](\A p \in Grants.playerIds, i \in Grants.items :
            /\ CountOf(GrantsOf(queued, p), i)
                 = CountOf(GrantsOf(polled, p), i) + CountOf(GrantsOf(pendingGrants, p), i)
            /\ ClaimGrantsResponse(p).status = 200
            /\ CountOf(ClaimGrantsResponse(p).body, i)
                 = CountOf(GrantsOf(pendingGrants, p), i)
            /\ p \notin DOMAIN Drained(p)
            /\ \A q \in DOMAIN pendingGrants \ {p} :
                  q \in DOMAIN Drained(p) /\ Drained(p)[q] = pendingGrants[q]
            /\ \A c \in 1..2 :
                  CountOf(GrantsOf(Queued(p, i, c), p), i)
                    = CountOf(GrantsOf(pendingGrants, p), i) + c)
    /\ [][\A p \in Grants.playerIds :
            (polled' # polled /\ ClaimGrants(p)) =>
               /\ p \notin DOMAIN pendingGrants'
               /\ ClaimGrantsResponse(p)' = Ok(NoFn)]_vars

\* Three units of one item were queued for a player in two calls, polled
\* once together, and nothing is pending.
C11_Witness ==
    \E p \in Grants.grantees :
       /\ p \in DOMAIN polled
       /\ polled[p] = ("FLASHBANG" :> MaxGrants)
       /\ queued = polled
       /\ pendingGrants = NoFn

\* The connection opened last for the player id it was opened for.
LatestFor(c) ==
    \A d \in DOMAIN conns : conns[d].playerId = conns[c].playerId => d <= c

\* C12 as stated: in every reachable state, a connection that is still open
\* and is the one most recently opened for its player id is the sink the
\* registry holds for that id, so that sseSendTo reaches it.
C12_LastConnectionWins ==
    \A c \in DOMAIN conns :
       (conns[c].open /\ LatestFor(c)) =>
          /\ conns[c].playerId \in DOMAIN sseClients
          /\ sseClients[conns[c].playerId] = c
          /\ \E e \in sseSendTo(conns[c].playerId, "youWon", NoFn) : e.to = c

\* The state the error answers must leave alone.
Shared == <<players, runs, leaderboards, winners, pendingGrants, lastManualReset>>

\* Some request answered with an error accounts for the step.
ErrorStep ==
    \E playerId \in Errors.playerIds :
       \/ StartRunResponse(playerId).status # 200 /\ StartRun(playerId)
       \/ \E playerName \in Errors.playerNames, score \in Errors.scores,
             runId \in Errors.runIds, jumpIntervals \in Errors.intervals :
             /\ SubmitResponse(playerId, playerName, score, runId, jumpIntervals).status # 200
             /\ SubmitScore(playerId, playerName, score, runId, jumpIntervals)
       \/ \E item \in Errors.items :
             PurchaseResponse(playerId, item).status # 200 /\ Purchase(playerId, item)
       \/ \E item \in Errors.useItems :
             UseItemResponse(playerId, item).status # 200 /\ UseItem(playerId, item)
       \/ \E amount \in Errors.amounts :
             SetDropResponse(playerId, amount).status # 200 /\ SetDrop(playerId, amount)
       \/ \E key \in Errors.keys, day \in Errors.days, claimSecret \in Errors.secrets :
             /\ VerifyClaimResponse(key, day, playerId, claimSecret).status # 200
             /\ VerifyClaim(key, day, playerId, claimSecret)
       \/ \E claimCode \in Errors.days, claimSecret \in Errors.secrets :
             /\ VerifyWinnerResponse(playerId, claimCode, claimSecret).status # 200
             /\ VerifyWinner(playerId, claimCode, claimSecret)

\* C13: errors are request-local.  In every reachable state, a request that
\* is answered with an error leaves the runs, the leaderboards, the winners
\* and the cooldown timestamp as they are; and no step that changes players,
\* runs, leaderboards, winners, pending grants or the cooldown timestamp is
\* the step of a request answered with an error.
C13_ErrorsAreLocal ==
    /\ [](\A playerId \in Errors.playerIds :
            /\ \A playerName \in Errors.playerNames, score \in Errors.scores,
                  runId \in Errors.runIds, jumpIntervals \in Errors.intervals :
                  SubmitResponse(playerId, playerName, score, runId, jumpIntervals).status # 200
                  => /\ SubmitRuns(playerId, playerName, score, runId, jumpIntervals) = runs
                     /\ SubmitBoards(playerId, playerName, score, runId, jumpIntervals)
                          = leaderboards
            /\ \A item \in Errors.useItems :
                  UseItemResponse(playerId, item).status # 200
                  => /\ UseItemLastReset(playerId, item) = lastManualReset
                     /\ UseItemBoards(playerId, item) = leaderboards
            /\ \A key \in Errors.keys, day \in Errors.days, claimSecret \in Errors.secrets :
                  VerifyClaimResponse(key, day, playerId, claimSecret).status # 200
                  => VerifyClaimWinners(key, day, playerId, claimSecret) = winners
            /\ \A claimCode \in Errors.days, claimSecret \in Errors.secrets :
                  VerifyWinnerResponse(playerId, claimCode, claimSecret).status # 200
                  => VerifyWinnerWinners(playerId, claimCode, claimSecret) = winners)
    /\ [][Shared' # Shared => ~ErrorStep]_vars

\* A state with a stored score, a winner, a pending grant and a running
\* cooldown, in which a player without credits holds a run too young for the
\* score: submissions, purchases, resets and claims are all refused.
C13_Witness ==
    \E p \in DOMAIN players, r \in DOMAIN runs :
       /\ ErrorOf(SubmitResponse(p, <<>>, Number(7), r, <<>>)) = "Too fast"
       /\ ErrorOf(SubmitResponse(p, <<>>, NotANumber, r, <<>>)) = "Invalid score"
       /\ ErrorOf(SubmitResponse(0, <<>>, Number(7), r, <<>>)) = "Invalid player"
       /\ ErrorOf(PurchaseResponse(p, "SAVE_FROM_RESET")) = "Not enough credits"
       /\ ErrorOf(PurchaseResponse(p, "NO_SUCH_ITEM")) = "Invalid item"
       /\ ErrorOf(UseItemResponse(p, "RESET_LEADERBOARD")) = "RESET_COOLDOWN"
       /\ ErrorOf(VerifyWinnerResponse(p, 0, 1)) = "Missing parameters"
       /\ ErrorOf(VerifyWinnerResponse(p, StartDay, MaxSecrets)) = "Invalid verification"
       /\ ErrorOf(VerifyClaimResponse("nope", StartDay, p, 1)) = "forbidden"
       /\ ErrorOf(VerifyClaimResponse(ADMIN_KEY, 0, p, 1)) = "not-found"
       /\ p \in DOMAIN pendingGrants
       /\ leaderboards[StartDay] # <<>>

\* A run is held at an age that suits the score, and a mechanical rhythm or
\* another player's id is refused with the run left in place.
C13_WitnessRhythm ==
    \E p \in DOMAIN players, r \in DOMAIN runs :
       /\ ErrorOf(SubmitResponse(p, <<>>, Number(7), r, Samples(10, 100, 100)))
            = "Unnatural rhythm"
       /\ \E q \in Errors.runIds :
             ErrorOf(SubmitResponse(p, <<>>, Number(7), q, <<>>)) = "No active run"

\* C14: one epoch is current and closed epochs are read-only.  In every
\* reachable state the current day has a leaderboard and every other
\* leaderboard is of an earlier day; an accepted submission records its score
\* under the current day and leaves every other leaderboard as it is, and so
\* does a manual reset; and no step, a rollover included, adds, changes or
\* removes an entry of a leaderboard of a day that is not current after the
\* step.
C14_ClosedEpochsReadOnly ==
    /\ [](/\ currentDay \in DOMAIN leaderboards
          /\ \A d \in DOMAIN leaderboards : d <= currentDay
          /\ \A p \in Closing.playerIds :
                /\ \A s \in Closing.scores, r \in Closing.runIds :
                      SubmitResponse(p, <<>>, s, r, <<>>).status = 200 =>
                         LET after == SubmitBoards(p, <<>>, s, r, <<>>) IN
                         /\ DOMAIN after = DOMAIN leaderboards
                         /\ MapHas(after[currentDay], p)
                         /\ ScoreOf(after[currentDay], p)
                              = SubmitResponse(p, <<>>, s, r, <<>>).body.best
                         /\ \A d \in DOMAIN leaderboards \ {currentDay} :
                               after[d] = leaderboards[d]
                /\ \A d \in DOMAIN leaderboards \ {currentDay} :
                      /\ d \in DOMAIN UseItemBoards(p, "RESET_LEADERBOARD")
                      /\ UseItemBoards(p, "RESET_LEADERBOARD")[d] = leaderboards[d])
    /\ [][\A d \in DOMAIN leaderboards :
             d # currentDay' =>
                d \in DOMAIN leaderboards' /\ leaderboards'[d] = leaderboards[d]]_vars

\* Two days are closed, the first with its scores in place, after a manual
\* reset at an instant of the second day and an accepted score on the third.
C14_Witness ==
    /\ currentDay = StartDay + 2
    /\ DOMAIN leaderboards = StartDay..currentDay
    /\ leaderboards[StartDay] # <<>>
    /\ lastManualReset = StartTime + DayMs + 10 * SecondMs
    /\ \E p \in DOMAIN players :
          /\ MapHas(leaderboards[currentDay], p)
          /\ p \in DOMAIN epochBest
          /\ ~MapHas(leaderboards[StartDay + 1], p)

\* C15 as stated: in every reachable state every player record has a display
\* name of 1 to 16 characters.
C15_DisplayNames ==
    \A p \in DOMAIN players : Len(players[p].name) \in 1..16

\* What holds of the names nevertheless: none is longer than 16 characters,
\* and only a registration whose name is made of the admin trigger and
\* blanks stores an empty one.
NamesAtMost16 ==
    /\ \A p \in DOMAIN players :
          /\ Len(players[p].name) <= 16
          /\ players[p].name = <<>> => players[p].isAdmin
    /\ \A p \in DOMAIN players, playerName \in Names.playerNames :
          Len(SubmitName(p, playerName)) <= 16

\* The events of a set that carry a claim secret.
WithSecret(events) == {e \in events : "claimSecret" \in DOMAIN e.data}

\* Every event a request can emit in this state.
RequestEvents ==
    UNION ({ConnectEvents(p) : p \in Hub.sinks}
      \cup {SubmitEvents(p, nm, sc, r, iv) :
              p \in Hub.playerIds, nm \in Hub.playerNames, sc \in Hub.scores,
              r \in Hub.runIds, iv \in Hub.intervals}
      \cup {UseItemEvents(p, it) : p \in Hub.playerIds, it \in Hub.useItems}
      \cup {SetDropEvents(p, a) : p \in Hub.playerIds, a \in Hub.amounts})

\* The bodies of every response a request can get in this state.
ResponseBodies ==
    {GetYesterdayWinner}
    \cup UNION {GetWinners(limit) : limit \in 1..2}
    \cup {RegisterResponse(name).body : name \in Hub.names}
    \cup UNION {
           {GetMeWinner(p), StartRunResponse(p).body, ClaimGrantsResponse(p).body}
           \cup {SubmitResponse(p, nm, sc, r, iv).body :
                   nm \in Hub.playerNames, sc \in Hub.scores, r \in Hub.runIds,
                   iv \in Hub.intervals}
           \cup {PurchaseResponse(p, it).body : it \in Hub.items}
           \cup {UseItemResponse(p, it).body : it \in Hub.useItems}
           \cup {SetDropResponse(p, a).body : a \in Hub.amounts}
           \cup {VerifyWinnerResponse(p, code, s).body :
                   code \in Hub.days, s \in Hub.secrets}
           \cup UNION {{VerifyClaimResponse(k, d, p, s).body,
                        IF VerifyClaimResponse(k, d, p, s).status = 200
                        THEN VerifyClaimResponse(k, d, p, s).body.winner
                        ELSE Null} :
                   k \in Hub.keys, d \in Hub.days, s \in Hub.secrets}
           : p \in Hub.playerIds}

\* A record without its claimHash.
HashLess(w) == [f \in DOMAIN w \ {"claimHash"} |-> w[f]]

\* C16: the claim secret goes to the winner's sink only.  In every reachable
\* state, the tick that closes a day with a winner whose player id has a
\* registered sink writes the drawn secret in exactly one event, the youWon
\* event to that sink, and when the id has no sink, or no rollover is due, or
\* the closing leaderboard is empty, it writes the secret in no event; the
\* winner record it stores depends on the secret through claimHash only,
\* which is not the secret; and no winner record, no event of a request and
\* no response body has a claimSecret field.
C16_SecretToWinnerOnly ==
    /\ \A c \in Hub.drawn :
          /\ IF /\ NeedsRollover(dayKey(now), currentDay)
                /\ leaderboards[currentDay] # <<>>
                /\ Top1(leaderboards[currentDay]).playerId \in DOMAIN sseClients
             THEN WithSecret(TickEvents(c))
                    = {[to |-> sseClients[Top1(leaderboards[currentDay]).playerId],
                        event |-> "youWon",
                        data |-> [day |-> currentDay,
                                  claimCode |-> NewClaimCode(currentDay),
                                  claimSecret |-> c,
                                  prize |-> MONEY_DROP_AMOUNT]]}
             ELSE WithSecret(TickEvents(c)) = {}
          /\ \A e \in TickEvents(c) \ WithSecret(TickEvents(c)) :
                \A f \in DOMAIN e.data : e.data[f] # c \/ f = "newDay"
          /\ leaderboards[currentDay] # <<>> =>
                LET w == NewWinner(currentDay, Top1(leaderboards[currentDay]), c) IN
                /\ "claimSecret" \notin DOMAIN w
                /\ w.claimHash # c
                /\ \A b \in Hub.drawn :
                      HashLess(w) = HashLess(NewWinner(currentDay,
                                       Top1(leaderboards[currentDay]), b))
    /\ \A d \in DOMAIN winners : "claimSecret" \notin DOMAIN winners[d]
    /\ WithSecret(RequestEvents) = {}
    /\ \A body \in ResponseBodies : "claimSecret" \notin DOMAIN body

\* A day with a winner is about to be closed while the winner and another
\* player are both connected.
C16_Witness ==
    /\ NeedsRollover(dayKey(now), currentDay)
    /\ leaderboards[currentDay] # <<>>
    /\ Top1(leaderboards[currentDay]).playerId \in DOMAIN sseClients
    /\ Cardinality({sseClients[k] : k \in DOMAIN sseClients}) = 2

\* A day with a winner is about to be closed while only another player is
\* connected.
C16_WitnessNoSink ==
    /\ NeedsRollover(dayKey(now), currentDay)
    /\ leaderboards[currentDay] # <<>>
    /\ Top1(leaderboards[currentDay]).playerId \notin DOMAIN sseClients
    /\ DOMAIN sseClients # {}

\* C17: winner selection at rollover.  In the step that changes currentDay
\* away from day d, the winners gain a record for d when leaderboard d has an
\* entry and stay as they are when it has none; the record's playerId, name
\* and score are those of an entry of leaderboard d that no entry exceeds in
\* score and that every entry inserted before it falls short of.
C17_WinnerSelection ==
    [][currentDay' # currentDay =>
         LET d == currentDay
             lb == leaderboards[d]
         IN /\ d \notin DOMAIN winners
            /\ IF lb = <<>>
               THEN winners' = winners
               ELSE /\ DOMAIN winners' = DOMAIN winners \cup {d}
                    /\ \A e \in DOMAIN winners : winners'[e] = winners[e]
                    /\ winners'[d].day = d
                    /\ \E i \in DOMAIN lb :
                          /\ \A j \in DOMAIN lb : lb[j].score <= lb[i].score
                          /\ \A j \in 1..(i - 1) : lb[j].score < lb[i].score
                          /\ winners'[d].playerId = lb[i].playerId
                          /\ winners'[d].name = lb[i].name
                          /\ winners'[d].score = lb[i].score]_vars

\* The second player registered won the first day: the first player's entry
\* was inserted later with the same score.
C17_Witness ==
    /\ StartDay \in DOMAIN winners
    /\ winners[StartDay].playerId = 2
    /\ Len(leaderboards[StartDay]) = 2
    /\ leaderboards[StartDay][1].playerId = 2
    /\ leaderboards[StartDay][2].score = leaderboards[StartDay][1].score
    /\ winners[StartDay].score = 3

\* A day was closed without entries and without a winner record.
C17_WitnessEmpty ==
    /\ currentDay = StartDay + 1
    /\ leaderboards[StartDay] = <<>>
    /\ DOMAIN winners = {}
    /\ DOMAIN players # {}

\* The players whose entry of leaderboard lb a rollover carries over.
Migrated(lb) ==
    {p \in DOMAIN players :
        players[p].saveFromReset > 0 /\ MapHas(lb, p) /\ ScoreOf(lb, p) > 0}

\* C18: a rollover is never seen half-done.  The timer callback runs to
\* completion between requests, so every state a request handler runs in is
\* a reachable state of the model.  In each of them the current day has a
\* leaderboard and every closed day has a winner record exactly when its
\* leaderboard has an entry; and the step that moves currentDay away from
\* day d leaves, all at once, a winner record for d exactly when leaderboard
\* d has an entry, a leaderboard for the new day holding exactly the entries
\* carried over, and the save counters of exactly those players lowered by
\* one.
C18_RolloverAtomic ==
    /\ [](/\ currentDay \in DOMAIN leaderboards
          /\ \A d \in DOMAIN leaderboards \ {currentDay} :
                d \in DOMAIN winners <=> leaderboards[d] # <<>>
          /\ DOMAIN winners \subseteq DOMAIN leaderboards \ {currentDay})
    /\ [][currentDay' # currentDay =>
            LET d == currentDay
                lb == leaderboards[d]
            IN /\ d \in DOMAIN winners' <=> lb # <<>>
               /\ currentDay' \in DOMAIN leaderboards'
               /\ MapKeys(leaderboards'[currentDay']) = Migrated(lb)
               /\ \A p \in Migrated(lb) :
                     /\ ScoreOf(leaderboards'[currentDay'], p) = ScoreOf(lb, p)
                     /\ players'[p].saveFromReset = players[p].saveFromReset - 1
               /\ \A p \in DOMAIN players \ Migrated(lb) : players'[p] = players[p]
               /\ DOMAIN players' = DOMAIN players]_vars

\* The first day is closed: its winner is recorded, the one save a player
\* bought is spent and the player's entry carried over, and the other
\* player's entry is not.
C18_Witness ==
    /\ currentDay = StartDay + 1
    /\ StartDay \in DOMAIN winners
    /\ \E p, q \in DOMAIN players :
          /\ MapHas(leaderboards[StartDay], p)
          /\ MapHas(leaderboards[StartDay], q)
          /\ players[p].credits = StartCredits(FALSE) - ITEM_PRICES.SAVE_FROM_RESET
          /\ players[p].saveFromReset = 0
          /\ MapKeys(Board) = {p}
          /\ ScoreOf(Board, p) = ScoreOf(leaderboards[StartDay], p)
          /\ p # q

\* The forceReset events among those of a set.
ForceResets(events) == {e \in events : e.event = "forceReset"}

\* The connections the registry holds.
Registered == {sseClients[k] : k \in DOMAIN sseClients}

\* C19: rollover progress and notification.  With the tick taken again and
\* again, a state in which the day key of the clock differs from currentDay
\* is followed by one in which they are equal.  A tick at which a rollover is
\* due writes one forceReset event, carrying the day key of the clock, to
\* each registered connection, which is registered under one id only, and
\* none to any other connection; a tick at which none is due writes
\* nothing.  The step that writes the events is the step that moves
\* currentDay to the key they carry, stores the winner record of the closed
\* day and carries the saved entries over.
C19_RolloverProgress ==
    /\ [](\A c \in Live.drawn :
            IF dayKey(now) # currentDay
            THEN /\ {e.to : e \in ForceResets(TickEvents(c))} = Registered
                 /\ \A e \in ForceResets(TickEvents(c)) :
                       e.data = [newDay |-> dayKey(now)]
                 /\ \A conn \in Registered :
                       /\ Cardinality({e \in ForceResets(TickEvents(c)) : e.to = conn}) = 1
                       /\ Cardinality({k \in DOMAIN sseClients : sseClients[k] = conn}) = 1
                       /\ conns[conn].open
            ELSE TickEvents(c) = {})
    /\ [][currentDay' # currentDay =>
            /\ Tick(Live.drawn)
            /\ currentDay' = dayKey(now)
            /\ currentDay \in DOMAIN winners' <=> leaderboards[currentDay] # <<>>
            /\ currentDay' \in DOMAIN leaderboards'
            /\ \A p \in DOMAIN players :
                  IsSaved(p, leaderboards[currentDay]) =>
                     MapHas(leaderboards'[currentDay'], p)]_vars
    /\ (dayKey(now) # currentDay) ~> (dayKey(now) = currentDay)

\* After one rollover the clock has reached the next day, with two
\* connections registered for the coming tick to notify.
C19_Witness ==
    /\ currentDay = StartDay + 1
    /\ dayKey(now) = StartDay + 2
    /\ StartDay \in DOMAIN winners
    /\ Cardinality(Registered) = 2

\* The age of run r at the clock's instant.
Age(r) == now - runs[r].startedAt

\* C20: run garbage collection.  A tick removes the runs started more than
\* one hour before its instant and keeps every other run as it is, a run
\* started exactly one hour before included; with the tick taken again and
\* again, a run that is more than one hour old is eventually removed; and in
\* every reachable state a well-formed submission of a player without the
\* admin flag that names a run id that was issued and is no longer stored is
\* answered 'No active run'.
C20_RunSweep ==
    /\ [](/\ DOMAIN cleanupOldRuns(runs, now) = {r \in DOMAIN runs : Age(r) <= HourMs}
          /\ \A r \in DOMAIN cleanupOldRuns(runs, now) :
                cleanupOldRuns(runs, now)[r] = runs[r]
          /\ \A p \in DOMAIN players, r \in 1..runSeq, s \in Live.scores :
                (~players[p].isAdmin /\ r \notin DOMAIN runs) =>
                   ErrorOf(SubmitResponse(p, <<>>, s, r, <<>>)) = "No active run")
    /\ [][Tick(Live.drawn) =>
            /\ DOMAIN runs' = {r \in DOMAIN runs : Age(r) <= HourMs}
            /\ \A r \in DOMAIN runs' : runs'[r] = runs[r]]_vars
    /\ \A r \in Live.runIds :
          (r \in DOMAIN runs /\ Age(r) > HourMs) ~> (r \notin DOMAIN runs)

\* Two runs were started an hour apart and no score was ever accepted; a tick
\* one hour and a millisecond after the first start has swept the first run
\* and kept the second, and a submission naming the first is refused.
C20_Witness ==
    /\ now = StartTime + HourMs + 1
    /\ runSeq = 2
    /\ DOMAIN runs = {2}
    /\ runs[2].startedAt = StartTime + HourMs
    /\ leaderboards[currentDay] = <<>>
    /\ \E p \in DOMAIN players :
          ErrorOf(SubmitResponse(p, <<>>, Number(7), 1, <<>>)) = "No active run"

\* Every event a request or a tick can write in this state.
AllWrites == RequestEvents \cup UNION {TickEvents(c) : c \in Hub.drawn}

\* C21: no write to a closed channel.  In every reachable state each entry
\* of the registry holds a connection that was opened for the entry's id and
\* has not been closed, and every event that sseSendTo or broadcast can
\* write, for a request or for a tick, goes to an open connection.
C21_NoClosedSink ==
    /\ \A k \in DOMAIN sseClients :
          /\ sseClients[k] \in DOMAIN conns
          /\ conns[sseClients[k]].open
          /\ conns[sseClients[k]].playerId = k
    /\ \A k \in Hub.sinks :
          \A e \in sseSendTo(k, "youWon", NoFn) \cup broadcast("forceReset", NoFn) :
             conns[e.to].open
    /\ \A e \in AllWrites : e.to \in DOMAIN conns => conns[e.to].open

\* A player id has a closed connection and, after a reconnect, an open one
\* that is registered.
C21_Witness ==
    \E c, d \in DOMAIN conns :
       /\ ~conns[c].open
       /\ conns[d].open
       /\ conns[d].playerId = conns[c].playerId
       /\ conns[d].playerId \in DOMAIN sseClients
       /\ sseClients[conns[d].playerId] = d

\* a >= 0 on numbers: false of NaN.
NonNegative(a) == a # NaN /\ a >= 0

\* C22 as stated: in every reachable state every player's credits and save
\* counter are not negative; a step that changes a player's credits is the
\* purchase of an item whose listed price the credits cover, and it lowers
\* the credits by that price, adds one to saveFromReset for SAVE_FROM_RESET
\* and to nothing else, and sets flashShieldActive for SAVE_FROM_FLASHBANGS;
\* and no step sets a flashShieldActive that is true back to false.
C22_Purchases ==
    /\ [](\A p \in DOMAIN players :
            /\ NonNegative(players[p].credits)
            /\ players[p].saveFromReset >= 0)
    /\ [][\A p \in DOMAIN players :
             /\ p \in DOMAIN players'
             /\ players[p].flashShieldActive => players'[p].flashShieldActive
             /\ players'[p].credits # players[p].credits =>
                  \E item \in DOMAIN ITEM_PRICES :
                     /\ NonNegative(players[p].credits)
                     /\ players[p].credits >= ITEM_PRICES[item]
                     /\ players'[p] =
                          [players[p] EXCEPT
                             !.credits = @ - ITEM_PRICES[item],
                             !.saveFromReset =
                                IF item = "SAVE_FROM_RESET" THEN @ + 1 ELSE @,
                             !.flashShieldActive =
                                IF item = "SAVE_FROM_FLASHBANGS" THEN TRUE ELSE @]]_vars

\* What holds of the purse nevertheless: the save counter is never negative,
\* the shield is never switched off, and a purchase of a listed item is
\* answered 200 only when the credits are NaN or cover the price.
PurseOtherwise ==
    /\ [](\A p \in DOMAIN players :
            /\ players[p].saveFromReset >= 0
            /\ players[p].credits = NaN \/ players[p].credits >= 0
            /\ \A item \in DOMAIN ITEM_PRICES :
                  PurchaseResponse(p, item).status = 200 =>
                     players[p].credits = NaN \/ players[p].credits >= ITEM_PRICES[item])
    /\ [][\A p \in DOMAIN players :
             players[p].flashShieldActive =>
                p \in DOMAIN players' /\ players'[p].flashShieldActive]_vars

\* The fields of a winner record that are fixed at its creation.
Fixed(w) ==
    [day |-> w.day, playerId |-> w.playerId, name |-> w.name, score |-> w.score,
     prize |-> w.prize, claimCode |-> w.claimCode, claimHash |-> w.claimHash]

\* Some verification request that is answered 200 for the record of day d
\* accounts for the step.
VerifiedStep(d) ==
    \E playerId \in Records.playerIds, claimSecret \in Records.secrets :
       \/ \E key \in Records.keys :
             /\ VerifyClaimResponse(key, d, playerId, claimSecret).status = 200
             /\ VerifyClaim(key, d, playerId, claimSecret)
       \/ \E claimCode \in Records.days :
             /\ VerifyWinnerResponse(playerId, claimCode, claimSecret).status = 200
             /\ FirstDay(ClaimDays(playerId, claimCode)) = d
             /\ VerifyWinner(playerId, claimCode, claimSecret)

\* C23: a winner record is never deleted and is changed by a successful
\* verification only.  In every step each winner record stays in place with
\* its day, playerId, name, score, prize, claimCode and claimHash as they
\* are, and a record that changes at all is changed by a verification
\* request answered 200 for it, in verified and verifiedAt and nothing else.
C23_WinnerRecordFixed ==
    [][\A d \in DOMAIN winners :
          /\ d \in DOMAIN winners'
          /\ Fixed(winners'[d]) = Fixed(winners[d])
          /\ winners'[d] # winners[d] =>
                /\ VerifiedStep(d)
                /\ winners'[d].verified
                /\ \A f \in DOMAIN winners[d] \ {"verified", "verifiedAt"} :
                      winners'[d][f] = winners[d][f]
                /\ DOMAIN winners'[d] = DOMAIN winners[d] \cup {"verifiedAt"}]_vars

\* The first day's record is verified and keeps the name and the prize of
\* its day, after the winner was renamed, the prize changed, the leaderboard
\* reset and a second day closed with the new name and prize.
C23_Witness ==
    /\ DOMAIN winners = {StartDay, StartDay + 1}
    /\ winners[StartDay].verified
    /\ winners[StartDay].name = <<"a">>
    /\ winners[StartDay].prize = DEFAULT_DROP * 100
    /\ winners[StartDay + 1].name = <<"b">>
    /\ winners[StartDay + 1].prize = RoundCents(50000)
    /\ MONEY_DROP_AMOUNT = RoundCents(50000)
    /\ lastManualReset > StartTime
    /\ players[winners[StartDay].playerId].name = <<"b">>

\* C24: the manual reset is not tied to the purchased item.  In every
\* reachable state use-item RESET_LEADERBOARD is answered 200 for a
\* registered player exactly when the cooldown has passed, whatever the
\* player bought, and then empties the current leaderboard, the entries of
\* players holding a save included, sets the cooldown timestamp to the
\* clock's instant and leaves every other leaderboard as it is; and the
\* step of a manual reset leaves the players, the runs, the winners, the
\* current day, the prize and the pending grants unchanged.
C24_ResetUntied ==
    /\ [](\A p \in Manual.playerIds :
            LET response == UseItemResponse(p, "RESET_LEADERBOARD")
                after == UseItemBoards(p, "RESET_LEADERBOARD")
            IN /\ response.status = 200
                    <=> (p \in DOMAIN players /\ now - lastManualReset >= RESET_COOLDOWN_MS)
               /\ response.status = 200 =>
                    /\ after[currentDay] = <<>>
                    /\ DOMAIN after = DOMAIN leaderboards
                    /\ \A d \in DOMAIN leaderboards \ {currentDay} :
                          after[d] = leaderboards[d]
                    /\ UseItemLastReset(p, "RESET_LEADERBOARD") = now)
    /\ [][ManualReset =>
            /\ UNCHANGED <<players, runs, runSeq, winners, currentDay,
                           MONEY_DROP_AMOUNT, pendingGrants, sseClients>>
            /\ leaderboards'[currentDay] = <<>>
            /\ lastManualReset' = now]_vars

\* After a manual reset by players who never bought the reset, the current
\* leaderboard is empty although a player who scored in the epoch holds a
\* save.
C24_Witness ==
    /\ lastManualReset = now
    /\ Board = <<>>
    /\ \A p \in DOMAIN players :
          players[p].credits >= StartCredits(FALSE) - ITEM_PRICES.SAVE_FROM_RESET
    /\ \E p \in DOMAIN players :
          /\ players[p].saveFromReset = 1
          /\ p \in DOMAIN epochBest
          /\ p \in touched

\* The day of the epoch closed last.
PrevDay == CHOOSE d \in DOMAIN leaderboards \ {currentDay} :
              \A e \in DOMAIN leaderboards \ {currentDay} : e <= d

\* No manual reset has happened in the current epoch.
EpochUnreset == lastManualReset = 0 \/ dayKey(lastManualReset) < currentDay

\* The players whose entry the last rollover carried into the current epoch,
\* in an epoch no manual reset has touched.
Carried ==
    IF currentDay > StartDay /\ EpochUnreset THEN touched ELSE {}

\* The score the last rollover carried over for player p.
CarriedScore(p) == ScoreOf(leaderboards[PrevDay], p)

\* No entry of lb has a score above that of p's entry.
Unbeaten(lb, p) == \A i \in DOMAIN lb : lb[i].score <= ScoreOf(lb, p)

\* No entry of lb has a score above that of p's entry, and none inserted
\* before it has the same score.
Leads(lb, p) ==
    \E j \in DOMAIN lb :
        /\ lb[j].playerId = p
        /\ \A i \in DOMAIN lb :
              /\ lb[i].score <= lb[j].score
              /\ i < j => lb[i].score < lb[j].score

\* What the claim says of a carried score before the epoch closes: the stored
\* score is the greater of the carried score and the floored scores submitted
\* in the epoch, and a submission returns that maximum, so a lower one
\* returns the carried score.
CarriedIsBest ==
    \A p \in Carried :
        /\ MapHas(Board, p)
        /\ MapHas(leaderboards[PrevDay], p)
        /\ ScoreOf(Board, p) = IF p \in DOMAIN epochBest
                               THEN Max(CarriedScore(p), epochBest[p].max)
                               ELSE CarriedScore(p)
        /\ \A nm \in Carry.playerNames, sc \in Carry.scores,
              r \in Carry.runIds, iv \in Carry.intervals :
             SubmitResponse(p, nm, sc, r, iv).status = 200 =>
               LET best == SubmitResponse(p, nm, sc, r, iv).body.best
               IN /\ best = Max(ScoreOf(Board, p), WholePart(sc.val))
                  /\ ScoreOf(SubmitBoards(p, nm, sc, r, iv)[currentDay], p) = best
                  /\ (p \notin DOMAIN epochBest /\ WholePart(sc.val) < CarriedScore(p))
                       => best = CarriedScore(p)

\* C25 as stated, for epochs without a manual reset: a carried score acts as
\* an ordinary entry of the new epoch.  The stored score of a player whose
\* score s was carried over is the greater of s and the floored scores
\* submitted in the new epoch, a lower submission returns best = s, and at
\* the next rollover a carried player who has submitted nothing in the epoch
\* and above whose score no entry stands is recorded as the winner of the
\* epoch with score s.
C25_Original ==
    /\ []CarriedIsBest
    /\ [][currentDay' # currentDay =>
            \A p \in Carried :
               (p \notin DOMAIN epochBest /\ Unbeaten(Board, p)) =>
                  /\ currentDay \in DOMAIN winners'
                  /\ winners'[currentDay].playerId = p
                  /\ winners'[currentDay].score = CarriedScore(p)]_vars

\* C25 as amended: as above, but the carried player is recorded as the winner
\* when no entry stands above the carried score and no entry with the same
\* score was inserted into the leaderboard before the player's own; among
\* entries of equal score the one inserted first wins, and carried entries
\* are inserted in the order of registration.
C25_CarriedOrdinary ==
    /\ []CarriedIsBest
    /\ [][currentDay' # currentDay =>
            \A p \in Carried :
               (p \notin DOMAIN epochBest /\ Leads(Board, p)) =>
                  /\ currentDay \in DOMAIN winners'
                  /\ winners'[currentDay].playerId = p
                  /\ winners'[currentDay].score = CarriedScore(p)]_vars

\* Two players used both runs on the first day; the score of one was carried
\* over, nobody could submit on the second day, and the second rollover
\* recorded that player as the winner of the second day with the carried
\* score.
C25_Witness ==
    /\ currentDay = StartDay + 2
    /\ DOMAIN leaderboards = StartDay..currentDay
    /\ runSeq = MaxRuns
    /\ lastManualReset = 0
    /\ \E p, q \in DOMAIN players :
          /\ p # q
          /\ MapKeys(leaderboards[StartDay]) = {p, q}
          /\ ScoreOf(leaderboards[StartDay], p) = 500
          /\ MapKeys(leaderboards[StartDay + 1]) = {p}
          /\ ScoreOf(leaderboards[StartDay + 1], p) = 500
          /\ StartDay + 1 \in DOMAIN winners
          /\ winners[StartDay + 1].playerId = p
          /\ winners[StartDay + 1].score = 500

\* A player whose score was carried over has submitted a lower score in the
\* new epoch and the carried score is still the one stored.
C25_WitnessLower ==
    /\ currentDay = StartDay + 1
    /\ \E p \in Carried :
          /\ p \in DOMAIN epochBest
          /\ epochBest[p].max < CarriedScore(p)
          /\ epochBest[p].best = CarriedScore(p)
          /\ ScoreOf(Board, p) = CarriedScore(p)

\* A player whose score was carried over has submitted a higher score in the
\* new epoch and that one is stored.
C25_WitnessHigher ==
    /\ currentDay = StartDay + 1
    /\ \E p \in Carried :
          /\ p \in DOMAIN epochBest
          /\ epochBest[p].max > CarriedScore(p)
          /\ ScoreOf(Board, p) = epochBest[p].max

\* Two carried entries tie at the top of the leaderboard.
C25_WitnessTie ==
    \E p, q \in Carried :
        /\ p # q
        /\ Unbeaten(Board, p)
        /\ Unbeaten(Board, q)
        /\ DOMAIN epochBest = {}

=============================================================================
